---- MODULE Spec2Model ----
(***************************************************************************)
(* FinancialPlanningEngine (financial-automation/core/financial_planning.py) *)
(* as a state machine: the metric store, the forecasts and the plans the    *)
(* engine keeps, its public operations, and the fitters, the scenario       *)
(* adjuster, the accuracy estimator, the combiner and the plan derivations  *)
(* as operators.  Floating-point values are modelled as exact rationals     *)
(* [n, d] (d > 0, lowest terms); NaN and the infinities numpy produces on a *)
(* division by zero are separate values.                                    *)
(***************************************************************************)
EXTENDS Integers, Sequences, FiniteSets, TLC

(* ------------------------------ bounds --------------------------------- *)
\* largest number of metrics the store of the engine specification holds
MaxMetrics == 3
\* largest forecast horizon (forecast_months) a call is made with
MaxMonths == 2
\* direct generate_forecast calls are made while fewer forecasts are stored
MaxForecasts == 1
\* create_financial_plan is called while fewer plans are registered (and
\* fewer than MaxForecasts forecasts are stored)
MaxPlans == 1
\* longest monthly series handed to a fitter in the fitter specification
MaxLen == 3

VARIABLES
  historical_data,   \* FinancialPlanningEngine.historical_data
  forecasts,         \* FinancialPlanningEngine.forecasts
  financial_plans,   \* FinancialPlanningEngine.financial_plans
  rng,               \* state of the module-level generator of `random`
  next_id,           \* number of uuid4() identifiers handed out so far
  call,              \* the last call made: operation, arguments, outcome, and
                     \* whether it changed the engine or the generator
  input              \* the arguments drawn for the operators checked alone

vars == <<historical_data, forecasts, financial_plans, rng, next_id, call, input>>

(* --------------------------- exact rationals --------------------------- *)
Abs(i) == IF i < 0 THEN -i ELSE i

RECURSIVE GCD(_, _)
GCD(a, b) == IF b = 0 THEN a ELSE GCD(b, a % b)

\* the rational n/d in lowest terms with a positive denominator (d # 0)
Rat(n, d) ==
  LET g == GCD(Abs(n), Abs(d))
      s == IF d < 0 THEN -1 ELSE 1
  IN  [n |-> s * (n \div g), d |-> s * (d \div g)]

RInt(i) == [n |-> i, d |-> 1]
RZero == RInt(0)

RAdd(a, b) ==
  LET g == GCD(a.d, b.d)
  IN  Rat(a.n * (b.d \div g) + b.n * (a.d \div g), (a.d \div g) * b.d)

RNeg(a) == [n |-> -a.n, d |-> a.d]
RSub(a, b) == RAdd(a, RNeg(b))

RMul(a, b) ==
  LET g1 == GCD(Abs(a.n), b.d)
      g2 == GCD(Abs(b.n), a.d)
  IN  Rat((a.n \div g1) * (b.n \div g2), (a.d \div g2) * (b.d \div g1))

\* a / b for b # 0
RDiv(a, b) == RMul(a, Rat(b.d, b.n))

RLt(a, b) ==
  LET g == GCD(a.d, b.d)
  IN  a.n * (b.d \div g) < b.n * (a.d \div g)

RLe(a, b) == ~RLt(b, a)
RAbs(a) == [n |-> Abs(a.n), d |-> a.d]

RECURSIVE RPow(_, _)
RPow(a, k) == IF k = 0 THEN RInt(1) ELSE RMul(a, RPow(a, k - 1))

RECURSIVE RSum(_)
RSum(s) == IF s = <<>> THEN RZero ELSE RAdd(Head(s), RSum(Tail(s)))

(* float values: a finite rational, or what IEEE arithmetic gives instead *)
NaN == [n |-> 0, d |-> 0]
PosInf == [n |-> 1, d |-> 0]
NegInf == [n |-> -1, d |-> 0]
IsFinite(x) == x.d # 0

\* Python's max(0, x): x when x > 0 compares true, else 0 (so 0 for nan)
Max0(x) ==
  IF IsFinite(x) THEN (IF RLt(RZero, x) THEN x ELSE RZero)
  ELSE IF x = PosInf THEN PosInf ELSE RZero

(* ------------------------------- enums --------------------------------- *)
\* ForecastType, by value
REVENUE == "revenue"
EXPENSES == "expenses"
CASH_FLOW == "cash_flow"
GROWTH == "growth"
CHURN == "churn"
ForecastType == {REVENUE, EXPENSES, CASH_FLOW, GROWTH, CHURN}

\* ScenarioType, in declaration (iteration) order
OPTIMISTIC == "optimistic"
REALISTIC == "realistic"
PESSIMISTIC == "pessimistic"
ScenarioOrder == <<OPTIMISTIC, REALISTIC, PESSIMISTIC>>
ScenarioType == {OPTIMISTIC, REALISTIC, PESSIMISTIC}

\* the categories create_financial_plan forecasts, in its loop order
PlanForecastTypes == <<REVENUE, EXPENSES, CASH_FLOW>>

(* ------------------------------ strings -------------------------------- *)
UpperCase == "ABCDEFGHIJKLMNOPQRSTUVWXYZ"
LowerCase == "abcdefghijklmnopqrstuvwxyz"

LowerChar(c) ==
  IF \E i \in 1..Len(UpperCase) : SubSeq(UpperCase, i, i) = c
  THEN LET i == CHOOSE j \in 1..Len(UpperCase) : SubSeq(UpperCase, j, j) = c
       IN  SubSeq(LowerCase, i, i)
  ELSE c

\* str.lower()
RECURSIVE Lower(_)
Lower(s) ==
  IF Len(s) = 0 THEN s
  ELSE LowerChar(SubSeq(s, 1, 1)) \o Lower(SubSeq(s, 2, Len(s)))

\* Python's `term in s` on strings
Contains(term, s) ==
  \E i \in 1..(Len(s) - Len(term) + 1) : SubSeq(s, i, i + Len(term) - 1) = term

(* ------------------------- relevance classifier ------------------------ *)
\* relevance_map.get(forecast_type, [])
RelevantTerms(forecast_type) ==
  CASE forecast_type = REVENUE ->
         {"revenue", "sales", "subscription", "mrr", "arr"}
    [] forecast_type = EXPENSES ->
         {"expenses", "costs", "spend", "payroll", "marketing"}
    [] forecast_type = CASH_FLOW ->
         {"cash_flow", "receipts", "payments", "balance"}
    [] forecast_type = GROWTH ->
         {"growth", "customers", "users", "acquisition", "retention"}
    [] OTHER -> {}

\* any(term in s.lower() for term in relevant_terms)
HasRelevantTerm(s, forecast_type) ==
  \E term \in RelevantTerms(forecast_type) : Contains(term, Lower(s))

(* ------------------------- inputs of the engine ------------------------ *)
\* names and categories of the metrics supplied: matched by name only, by
\* category only (in upper case), by both, and by no keyword at all
MetricKinds ==
  { [name |-> "Monthly Revenue", category |-> "income"],
    [name |-> "Salaries", category |-> "PAYROLL"],
    [name |-> "Closing Balance", category |-> "cash_flow"],
    [name |-> "Churn Rate", category |-> "churn"] }

\* a metric relevant to revenue by its name ("subscription"), to cash flow by
\* its name ("payments") and to expenses by its category
SeriesKind == [name |-> "Subscription payments", category |-> "marketing"]

MetricValues == {1000}
MetricPeriods == {[ym |-> 1, day |-> 10], [ym |-> 2, day |-> 10]}

\* the records supplied: every kind in the first month, the revenue metric
\* in the later months too
MetricData ==
  { d \in { [name |-> k.name, category |-> k.category, value |-> v, period |-> p] :
              k \in MetricKinds, v \in MetricValues, p \in MetricPeriods } :
      d.period.ym = 1 \/ d.category = "income" }

\* the records whose value Decimal(str(value)) cannot convert
Inconvertible ==
  {[name |-> "Monthly Revenue", category |-> "income", value |-> "n/a",
    period |-> [ym |-> 1, day |-> 10], metadata |-> <<>>]}

\* a record without its name, and the records with an inconvertible value
MalformedData ==
  {[category |-> "income", value |-> 1000, period |-> [ym |-> 1, day |-> 10]]}
    \cup Inconvertible

\* longest batch one add_historical_data call is given
MaxBatch == 2
Batches ==
  UNION {[1..n -> MetricData \cup MalformedData] : n \in 1..MaxBatch}

PlanningHorizon == {"monthly", "quarterly", "yearly", "multi_year"}
Horizons == -1..MaxMonths

\* the names and categories that occur in the inputs, and for each of them
\* and each category whether the classifier matches: HasRelevantTerm,
\* evaluated once per string
Vocabulary ==
  {k.name : k \in MetricKinds \cup {SeriesKind}}
    \cup {k.category : k \in MetricKinds \cup {SeriesKind}}
    \cup {m.category : m \in MalformedData}

RelevanceTable ==
  [s \in Vocabulary, forecast_type \in ForecastType |-> HasRelevantTerm(s, forecast_type)]

\* _is_relevant_metric looking at the name of the metric only
IsRelevantByName(metric, forecast_type) ==
  RelevanceTable[metric.name, forecast_type]

\* _is_relevant_metric
IsRelevantMetric(metric, forecast_type) ==
  RelevanceTable[metric.name, forecast_type] \/ RelevanceTable[metric.category, forecast_type]

(* ------------------------ historical data frame ------------------------ *)
\* datetime order of two periods [ym, day]
PeriodLt(p, q) == p.ym < q.ym \/ (p.ym = q.ym /\ p.day < q.day)

\* a row put in its place in a frame already sorted by period; rows of equal
\* period keep their order of arrival
RECURSIVE InsertRow(_, _)
InsertRow(sorted, row) ==
  IF sorted = <<>> THEN <<row>>
  ELSE IF PeriodLt(row.period, Head(sorted).period)
       THEN <<row>> \o sorted
       ELSE <<Head(sorted)>> \o InsertRow(Tail(sorted), row)

\* DataFrame.sort_values('period')
RECURSIVE SortByPeriod(_)
SortByPeriod(rows) ==
  IF rows = <<>> THEN <<>>
  ELSE InsertRow(SortByPeriod(SubSeq(rows, 1, Len(rows) - 1)), rows[Len(rows)])

RelevantMetrics(hd, forecast_type) ==
  SelectSeq(hd, LAMBDA m : IsRelevantMetric(m, forecast_type))

\* _prepare_historical_data past its no-data check: one row per relevant
\* metric, value as float, sorted by period
HistoricalFrame(relevant_metrics) ==
  SortByPeriod([i \in 1..Len(relevant_metrics) |->
    [period |-> relevant_metrics[i].period, value |-> relevant_metrics[i].value]])

\* _prepare_historical_data on the store hd
PrepareHistoricalData(hd, forecast_type) ==
  HistoricalFrame(RelevantMetrics(hd, forecast_type))

\* the calendar months present in a frame, ascending
RECURSIVE SortedMonths(_)
SortedMonths(S) ==
  IF S = {} THEN <<>>
  ELSE LET lo == CHOOSE x \in S : \A y \in S : x <= y
       IN  <<lo>> \o SortedMonths(S \ {lo})

RECURSIVE SumValues(_)
SumValues(rows) ==
  IF rows = <<>> THEN 0 ELSE Head(rows).value + SumValues(Tail(rows))

\* _aggregate_monthly_data with an entry of 0 for every month without data
\* between the first and the last month
AggregateZeroFilled(df) ==
  LET present == {df[i].period.ym : i \in 1..Len(df)}
      lo == CHOOSE x \in present : \A y \in present : x <= y
      hi == CHOOSE x \in present : \A y \in present : y <= x
  IN  [k \in 1..(hi - lo + 1) |->
        [period |-> [ym |-> lo + k - 1, day |-> 1],
         value |-> SumValues(SelectSeq(df, LAMBDA r : r.period.ym = lo + k - 1))]]

\* _aggregate_monthly_data: one entry per calendar month present, the sum of
\* that month's values, stamped with the first day of the month, ascending
AggregateMonthlyData(df) ==
  LET months == SortedMonths({df[i].period.ym : i \in 1..Len(df)})
  IN  [k \in 1..Len(months) |->
        [period |-> [ym |-> months[k], day |-> 1],
         value |-> SumValues(SelectSeq(df, LAMBDA r : r.period.ym = months[k]))]]

(* ------------------------------- fitters ------------------------------- *)
\* A monthly series is a sequence of [period, value] in ascending period; a
\* fitter returns the list of prediction dicts of range(forecast_months).

\* historical_data['period'].iloc[-1] + timedelta(days=30 * (i + 1)), i = k - 1
FutureDate(series, k) == [from |-> series[Len(series)].period, days |-> 30 * k]

\* precision of the modelled n-th root: roots are rounded down to 1/RootScale
RootScale == 100

RECURSIVE IPow(_, _)
IPow(b, k) == IF k = 0 THEN 1 ELSE b * IPow(b, k - 1)

RECURSIVE RootSearch(_, _, _)
RootSearch(r, N, k) ==
  IF IPow(k + 1, N) * r.d <= r.n * IPow(RootScale, N)
  THEN RootSearch(r, N, k + 1) ELSE k

\* r ** (1 / N) for a finite r >= 0
RootN(r, N) == Rat(RootSearch(r, N, 0), RootScale)

\* growth_rate of _simple_trend_forecast, plus one: the per-period factor
\* (last / first) ** (1 / N), as numpy's float64 computes it
TrendFactor(series) ==
  LET N == Len(series)
      first == series[1].value
      last == series[N].value
  IN  IF N < 2 THEN Rat(105, 100)
      ELSE IF first = 0
           THEN (IF last = 0 THEN NaN ELSE PosInf)
           ELSE IF RLt(Rat(last, first), RZero) THEN NaN
                ELSE RootN(Rat(last, first), N)

\* last_value * ((1 + growth_rate) ** k)
TrendValue(last, factor, k) ==
  IF IsFinite(factor) THEN RMul(RInt(last), RPow(factor, k))
  ELSE IF factor = NaN \/ last = 0 THEN NaN
       ELSE IF last > 0 THEN PosInf ELSE NegInf

\* _simple_trend_forecast on a non-empty series (it raises on an empty one)
SimpleTrendForecast(series, forecast_months) ==
  LET factor == TrendFactor(series)
      last_value == series[Len(series)].value
  IN  [k \in 1..forecast_months |->
         [period |-> FutureDate(series, k),
          predicted_value |-> TrendValue(last_value, factor, k),
          model |-> "simple_trend"]]

\* _linear_regression_forecast handing every series of fewer than 3 points
\* to the simple trend
LinearShortToTrend(series, forecast_months) ==
  IF Len(series) < 3 THEN SimpleTrendForecast(series, forecast_months)
  ELSE [k \in 1..forecast_months |->
          [period |-> FutureDate(series, k),
           predicted_value |-> RZero,
           model |-> "linear_regression"]]

\* X.mean() and y.mean() of the regression
XMean(series) == Rat(Len(series) - 1, 2)
YMean(series) == Rat(SumValues(series), Len(series))

LinearSlope(series) ==
  LET N == Len(series)
      x_mean == XMean(series)
      y_mean == YMean(series)
      dx == [i \in 1..N |-> RSub(RInt(i - 1), x_mean)]
      dy == [i \in 1..N |-> RSub(RInt(series[i].value), y_mean)]
  IN  RDiv(RSum([i \in 1..N |-> RMul(dx[i], dy[i])]),
           RSum([i \in 1..N |-> RMul(dx[i], dx[i])]))

LinearIntercept(series, slope) ==
  RSub(YMean(series), RMul(slope, XMean(series)))

\* _linear_regression_forecast without its max(0, ...)
LinearRegressionUnfloored(series, forecast_months) ==
  IF Len(series) < 2 THEN SimpleTrendForecast(series, forecast_months)
  ELSE [k \in 1..forecast_months |->
          [period |-> FutureDate(series, k),
           predicted_value |->
              RAdd(RMul(LinearSlope(series), RInt(Len(series) + k - 1)),
                   LinearIntercept(series, LinearSlope(series))),
           model |-> "linear_regression"]]

LinearRegressionForecast(series, forecast_months) ==
  IF Len(series) < 2 THEN SimpleTrendForecast(series, forecast_months)
  ELSE LET slope == LinearSlope(series)
           intercept == LinearIntercept(series, slope)
       IN  [k \in 1..forecast_months |->
              [period |-> FutureDate(series, k),
               predicted_value |->
                  Max0(RAdd(RMul(slope, RInt(Len(series) + k - 1)), intercept)),
               model |-> "linear_regression"]]

\* _polynomial_regression_forecast handing a short series to the simple
\* trend at once
PolynomialToSimpleTrend(series, forecast_months) ==
  IF Len(series) < 3 THEN SimpleTrendForecast(series, forecast_months)
  ELSE [k \in 1..forecast_months |->
          [period |-> FutureDate(series, k),
           predicted_value |-> RZero,
           model |-> "polynomial_regression"]]

\* sums of the normal equations of the degree-2 least-squares fit
PowSum(series, e) ==
  LET N == Len(series)
      f[i \in 0..N] == IF i = 0 THEN 0 ELSE f[i - 1] + IPow(i - 1, e)
  IN  f[N]

MomentSum(series, e) ==
  LET N == Len(series)
      f[i \in 0..N] ==
        IF i = 0 THEN 0 ELSE f[i - 1] + IPow(i - 1, e) * series[i].value
  IN  f[N]

Det3(m) ==
    m[1][1] * (m[2][2] * m[3][3] - m[2][3] * m[3][2])
  - m[1][2] * (m[2][1] * m[3][3] - m[2][3] * m[3][1])
  + m[1][3] * (m[2][1] * m[3][2] - m[2][2] * m[3][1])

\* np.polyfit(X, y, 2): the coefficients <<a, b, c>> of a*x^2 + b*x + c
PolyFit2(series) ==
  LET S(e) == PowSum(series, e)
      T(e) == MomentSum(series, e)
      D  == Det3(<< <<S(4), S(3), S(2)>>, <<S(3), S(2), S(1)>>, <<S(2), S(1), S(0)>> >>)
      Da == Det3(<< <<T(2), S(3), S(2)>>, <<T(1), S(2), S(1)>>, <<T(0), S(1), S(0)>> >>)
      Db == Det3(<< <<S(4), T(2), S(2)>>, <<S(3), T(1), S(1)>>, <<S(2), T(0), S(0)>> >>)
      Dc == Det3(<< <<S(4), S(3), T(2)>>, <<S(3), S(2), T(1)>>, <<S(2), S(1), T(0)>> >>)
  IN  <<Rat(Da, D), Rat(Db, D), Rat(Dc, D)>>

\* poly_func(x)
PolyValue(coeffs, x) ==
  RAdd(RAdd(RMul(coeffs[1], RInt(x * x)), RMul(coeffs[2], RInt(x))), coeffs[3])

PolynomialRegressionForecast(series, forecast_months) ==
  IF Len(series) < 3 THEN LinearRegressionForecast(series, forecast_months)
  ELSE LET coeffs == PolyFit2(series)
       IN  [k \in 1..forecast_months |->
              [period |-> FutureDate(series, k),
               predicted_value |-> Max0(PolyValue(coeffs, Len(series) + k - 1)),
               model |-> "polynomial_regression"]]

\* the smoothing parameter alpha
Alpha == Rat(3, 10)

\* smoothed[i] of _exponential_smoothing_forecast (1-based)
Smoothed(series) ==
  LET f[i \in 1..Len(series)] ==
        IF i = 1 THEN RInt(series[1].value)
        ELSE RAdd(RMul(Alpha, RInt(series[i].value)),
                  RMul(RSub(RInt(1), Alpha), f[i - 1]))
  IN  f

SmoothingTrend(series) ==
  LET N == Len(series)
      smoothed == Smoothed(series)
  IN  IF N >= 2 THEN RSub(smoothed[N], smoothed[N - 1]) ELSE RZero

ExponentialSmoothingForecast(series, forecast_months) ==
  IF Len(series) < 2 THEN SimpleTrendForecast(series, forecast_months)
  ELSE LET last_value == Smoothed(series)[Len(series)]
           trend == SmoothingTrend(series)
       IN  [k \in 1..forecast_months |->
              [period |-> FutureDate(series, k),
               predicted_value |-> Max0(RAdd(last_value, RMul(trend, RInt(k)))),
               model |-> "exponential_smoothing"]]

\* _arima_forecast
ArimaForecast(series, forecast_months) ==
  ExponentialSmoothingForecast(series, forecast_months)

(* --------------------------- scenario adjuster ------------------------- *)
\* one entry of the adjustment table, factors given in hundredths
Factors(g, v, m) ==
  [growth_factor |-> Rat(g, 100), volatility |-> Rat(v, 100), market_factor |-> Rat(m, 100)]

\* _get_scenario_adjustments without volatility for a pair it has no entry for
AdjustmentsDefaultFlat(scenario, forecast_type) ==
  CASE scenario = OPTIMISTIC /\ forecast_type = REVENUE -> Factors(125, 15, 110)
    [] scenario = OPTIMISTIC /\ forecast_type = EXPENSES -> Factors(95, 10, 90)
    [] scenario = OPTIMISTIC /\ forecast_type = CASH_FLOW -> Factors(120, 12, 105)
    [] scenario = OPTIMISTIC /\ forecast_type = GROWTH -> Factors(130, 20, 115)
    [] scenario = REALISTIC /\ forecast_type = REVENUE -> Factors(100, 10, 100)
    [] scenario = REALISTIC /\ forecast_type = EXPENSES -> Factors(100, 8, 100)
    [] scenario = REALISTIC /\ forecast_type = CASH_FLOW -> Factors(100, 10, 100)
    [] scenario = REALISTIC /\ forecast_type = GROWTH -> Factors(100, 15, 100)
    [] scenario = PESSIMISTIC /\ forecast_type = REVENUE -> Factors(80, 20, 90)
    [] scenario = PESSIMISTIC /\ forecast_type = EXPENSES -> Factors(110, 15, 110)
    [] scenario = PESSIMISTIC /\ forecast_type = CASH_FLOW -> Factors(75, 18, 85)
    [] scenario = PESSIMISTIC /\ forecast_type = GROWTH -> Factors(70, 25, 80)
    [] OTHER -> Factors(100, 0, 100)

\* _get_scenario_adjustments
GetScenarioAdjustments(scenario, forecast_type) ==
  CASE scenario = OPTIMISTIC /\ forecast_type = REVENUE -> Factors(125, 15, 110)
    [] scenario = OPTIMISTIC /\ forecast_type = EXPENSES -> Factors(95, 10, 90)
    [] scenario = OPTIMISTIC /\ forecast_type = CASH_FLOW -> Factors(120, 12, 105)
    [] scenario = OPTIMISTIC /\ forecast_type = GROWTH -> Factors(130, 20, 115)
    [] scenario = REALISTIC /\ forecast_type = REVENUE -> Factors(100, 10, 100)
    [] scenario = REALISTIC /\ forecast_type = EXPENSES -> Factors(100, 8, 100)
    [] scenario = REALISTIC /\ forecast_type = CASH_FLOW -> Factors(100, 10, 100)
    [] scenario = REALISTIC /\ forecast_type = GROWTH -> Factors(100, 15, 100)
    [] scenario = PESSIMISTIC /\ forecast_type = REVENUE -> Factors(80, 20, 90)
    [] scenario = PESSIMISTIC /\ forecast_type = EXPENSES -> Factors(110, 15, 110)
    [] scenario = PESSIMISTIC /\ forecast_type = CASH_FLOW -> Factors(75, 18, 85)
    [] scenario = PESSIMISTIC /\ forecast_type = GROWTH -> Factors(70, 25, 80)
    [] OTHER -> Factors(100, 10, 100)

\* The module-level generator of `random`: a deterministic generator whose
\* hidden state every draw advances.  random.uniform(-v, v) returns v times
\* the unit draw of the current state.
RngDraws == <<-1, 0, 1>>
RngStates == 1..Len(RngDraws)
RngNext(r) == (r % Len(RngDraws)) + 1

RECURSIVE RngAfter(_, _)
RngAfter(r, k) == IF k <= 0 THEN r ELSE RngAfter(RngNext(r), k - 1)

\* random.uniform(-volatility, volatility) in generator state r
Uniform(volatility, r) == RMul(RInt(RngDraws[r]), volatility)

\* x * f for a float x and a finite f > 0
Scaled(x, f) == IF IsFinite(x) THEN RMul(x, f) ELSE x

\* the adjusted value of one prediction without the floor at zero
AdjustedUnfloored(base_value, factors, r) ==
  Scaled(Scaled(Scaled(base_value, factors.growth_factor), factors.market_factor),
         RAdd(RInt(1), Uniform(factors.volatility, r)))

\* the adjusted value of one prediction without the market factor
AdjustedWithoutMarket(base_value, factors, r) ==
  Max0(Scaled(Scaled(base_value, factors.growth_factor),
              RAdd(RInt(1), Uniform(factors.volatility, r))))

\* the adjusted value of one prediction: base * growth * market * (1 + u),
\* floored at zero; the factors are positive and u is above -1
AdjustedValue(base_value, factors, r) ==
  Max0(Scaled(Scaled(Scaled(base_value, factors.growth_factor), factors.market_factor),
              RAdd(RInt(1), Uniform(factors.volatility, r))))

\* _apply_scenario_adjustments, started in generator state r: the k-th
\* prediction takes the k-th draw
ApplyScenarioAdjustments(predictions, scenario, forecast_type, r) ==
  LET factors == GetScenarioAdjustments(scenario, forecast_type)
  IN  [k \in 1..Len(predictions) |->
        [period |-> predictions[k].period,
         predicted_value |->
            AdjustedValue(predictions[k].predicted_value, factors, RngAfter(r, k - 1)),
         model |-> predictions[k].model,
         scenario |-> scenario,
         adjustments |-> factors]]

(* ------------------------- model selection table ----------------------- *)
\* the selection table without its entry for expenses
ModelTypeUnlisted(forecast_type) ==
  CASE forecast_type = REVENUE -> "linear_regression"
    [] forecast_type = CASH_FLOW -> "arima"
    [] forecast_type = GROWTH -> "exponential_smoothing"
    [] OTHER -> "linear_regression"

\* model_configs.get(forecast_type.value, {}).get('model_type', 'linear_regression')
ModelType(forecast_type) ==
  CASE forecast_type = REVENUE -> "linear_regression"
    [] forecast_type = EXPENSES -> "polynomial_regression"
    [] forecast_type = CASH_FLOW -> "arima"
    [] forecast_type = GROWTH -> "exponential_smoothing"
    [] OTHER -> "linear_regression"

\* model_configs.get(forecast_type.value, {}).get('confidence_level', 0.95)
ConfidenceLevel(forecast_type) ==
  CASE forecast_type = REVENUE -> Rat(95, 100)
    [] forecast_type = EXPENSES -> Rat(90, 100)
    [] forecast_type = CASH_FLOW -> Rat(95, 100)
    [] forecast_type = GROWTH -> Rat(85, 100)
    [] OTHER -> Rat(95, 100)

\* the base predictions _generate_predictions takes before the adjustment
BasePredictions(monthly_data, forecast_type, forecast_months) ==
  LET model_type == ModelType(forecast_type)
  IN  CASE model_type = "linear_regression" ->
             LinearRegressionForecast(monthly_data, forecast_months)
        [] model_type = "polynomial_regression" ->
             PolynomialRegressionForecast(monthly_data, forecast_months)
        [] model_type = "arima" ->
             ArimaForecast(monthly_data, forecast_months)
        [] model_type = "exponential_smoothing" ->
             ExponentialSmoothingForecast(monthly_data, forecast_months)
        [] OTHER -> SimpleTrendForecast(monthly_data, forecast_months)

\* _generate_predictions on the frame of a category's relevant metrics
GeneratePredictions(historical_df, forecast_type, scenario, forecast_months, r) ==
  ApplyScenarioAdjustments(
    BasePredictions(AggregateMonthlyData(historical_df), forecast_type, forecast_months),
    scenario, forecast_type, r)

\* _calculate_confidence_interval
CalculateConfidenceInterval(forecast_type) ==
  <<RSub(ConfidenceLevel(forecast_type), Rat(15, 100)),
    RAdd(ConfidenceLevel(forecast_type), Rat(5, 100))>>

(* --------------------------- accuracy estimator ------------------------ *)
DefaultAccuracy == Rat(7, 10)
AccuracyCap == Rat(95, 100)

\* int(len(historical_df) * 0.75)
SplitPoint(historical_df) == (3 * Len(historical_df)) \div 4

\* np.mean(np.abs((actual - predicted) / actual)) * 100; a zero actual value
\* makes a term inf or nan and so the mean inf or nan
Mape(actual, predicted) ==
  IF \E i \in 1..Len(actual) : actual[i].value = 0 THEN NaN
  ELSE RMul(RInt(100),
         RDiv(RSum([i \in 1..Len(actual) |->
                RAbs(RDiv(RSub(RInt(actual[i].value), predicted[i].predicted_value),
                          RInt(actual[i].value)))]),
              RInt(Len(actual))))

\* _calculate_model_accuracy on the frame generate_forecast hands it: the
\* rows of the relevant metrics, not the monthly series
CalculateModelAccuracy(historical_df) ==
  IF Len(historical_df) < 4 THEN DefaultAccuracy
  ELSE LET split_point == SplitPoint(historical_df)
           train_data == SubSeq(historical_df, 1, split_point)
           test_data == SubSeq(historical_df, split_point + 1, Len(historical_df))
           test_predictions == LinearRegressionForecast(train_data, Len(test_data))
       IN  IF Len(test_data) # Len(test_predictions) THEN DefaultAccuracy
           ELSE LET mape == Mape(test_data, test_predictions)
                    \* max(0, 100 - mape) / 100: max keeps its first argument
                    \* unless the second compares greater
                    accuracy == IF IsFinite(mape)
                                THEN RDiv(Max0(RSub(RInt(100), mape)), RInt(100))
                                ELSE RZero
                IN  IF RLt(AccuracyCap, accuracy) THEN AccuracyCap ELSE accuracy

(* ------------------------------ forecasts ------------------------------ *)
\* Decimal values and their str() forms, kept apart from floats (bare rationals)
Dec(x) == [decimal |-> x]
Str(x) == [str |-> x]

EmptyDict == <<>>

\* _get_scenario_assumptions
GetScenarioAssumptions(scenario) ==
  CASE scenario = OPTIMISTIC ->
         [market_growth |-> "Strong market growth expected",
          competition |-> "Limited competitive pressure",
          economic_conditions |-> "Favorable economic environment",
          product_adoption |-> "Rapid product adoption",
          operational_efficiency |-> "High operational efficiency gains"]
    [] scenario = REALISTIC ->
         [market_growth |-> "Moderate market growth",
          competition |-> "Normal competitive environment",
          economic_conditions |-> "Stable economic conditions",
          product_adoption |-> "Steady product adoption",
          operational_efficiency |-> "Gradual efficiency improvements"]
    [] scenario = PESSIMISTIC ->
         [market_growth |-> "Slow or declining market growth",
          competition |-> "Intense competitive pressure",
          economic_conditions |-> "Challenging economic environment",
          product_adoption |-> "Slow product adoption",
          operational_efficiency |-> "Operational challenges expected"]
    [] OTHER -> EmptyDict

\* the Forecast dataclass; cls is the Python type of the object
Forecast(id, forecast_type, scenario, forecast_months, predictions, ci, accuracy) ==
  [cls |-> "Forecast",
   forecast_id |-> id,
   forecast_type |-> forecast_type,
   scenario |-> scenario,
   period_start |-> "now",
   period_end |-> [from |-> "now", days |-> forecast_months * 30],
   predictions |-> predictions,
   confidence_interval |-> ci,
   model_accuracy |-> accuracy,
   assumptions |-> GetScenarioAssumptions(scenario),
   created_at |-> "now"]

\* generate_forecast on store hd in generator state r, the next uuid being id:
\* the error raised ("none" when it returns), the Forecast made, the state of
\* the generator afterwards
ForecastMade(forecast_type, scenario, forecast_months, r, id, predictions, accuracy) ==
  [error |-> "none",
   forecast |-> Forecast(id, forecast_type, scenario, forecast_months, predictions,
                         CalculateConfidenceInterval(forecast_type), accuracy),
   \* one draw of the generator per prediction
   rng |-> RngAfter(r, Len(predictions))]

GenerateForecastFrom(historical_df, forecast_type, scenario, forecast_months, r, id) ==
  ForecastMade(forecast_type, scenario, forecast_months, r, id,
               GeneratePredictions(historical_df, forecast_type, scenario,
                                   forecast_months, r),
               CalculateModelAccuracy(historical_df))

GenerateForecastOn(relevant_metrics, forecast_type, scenario, forecast_months, r, id) ==
  IF relevant_metrics = <<>>
  THEN [error |-> "ValueError", forecast |-> EmptyDict, rng |-> r]
  ELSE GenerateForecastFrom(HistoricalFrame(relevant_metrics), forecast_type,
                            scenario, forecast_months, r, id)

GenerateForecast(hd, forecast_type, scenario, forecast_months, r, id) ==
  GenerateForecastOn(RelevantMetrics(hd, forecast_type), forecast_type, scenario,
                     forecast_months, r, id)

(* --------------------------- forecast combiner ------------------------- *)
CombinedKeys == {"period", "revenue", "expenses", "cash_flow", "net_income"}

\* the value of a source forecast that is held at its last point past its end
SourceValueHeld(scenario_forecasts, key, i) ==
  IF key \in DOMAIN scenario_forecasts /\ Len(scenario_forecasts[key].predictions) > 0
  THEN LET points == scenario_forecasts[key].predictions
       IN  points[IF i <= Len(points) THEN i ELSE Len(points)].predicted_value
  ELSE RZero

\* the value the i-th record takes under key: the i-th predicted value of the
\* source forecast of that key when it has one, else the initial 0
SourceValue(scenario_forecasts, key, i) ==
  IF key \in DOMAIN scenario_forecasts /\ i <= Len(scenario_forecasts[key].predictions)
  THEN scenario_forecasts[key].predictions[i].predicted_value
  ELSE RZero

\* period_prediction of _combine_forecasts for i = k - 1
CombinedPrediction(scenario_forecasts, k) ==
  LET covering == {t \in DOMAIN scenario_forecasts :
                     k <= Len(scenario_forecasts[t].predictions)}
  IN  [key \in CombinedKeys \cup covering |->
         CASE key = "period" -> [from |-> "now", days |-> 30 * k]
           [] key = "net_income" ->
                RSub(SourceValue(scenario_forecasts, "revenue", k),
                     SourceValue(scenario_forecasts, "expenses", k))
           [] OTHER -> SourceValue(scenario_forecasts, key, k)]

\* _combine_forecasts
CombineForecasts(scenario_forecasts, scenario_type, forecast_months, id) ==
  Forecast(id, CASH_FLOW, scenario_type, forecast_months,
           [k \in 1..forecast_months |-> CombinedPrediction(scenario_forecasts, k)],
           <<Rat(80, 100), Rat(95, 100)>>,
           Rat(85, 100))

(* --------------------------- plan derivations -------------------------- *)
\* sum(p[key] for p in forecast.predictions)
Total(forecast, key) ==
  RSum([k \in 1..Len(forecast.predictions) |-> forecast.predictions[k][key]])

\* _create_budget_allocations taking the average over twelve months
BudgetOverTwelve(scenarios) ==
  IF "realistic" \notin DOMAIN scenarios
  THEN [error |-> "none", value |-> EmptyDict]
  ELSE LET share(pct) ==
             Dec(RMul(RDiv(Total(scenarios["realistic"], "revenue"), RInt(12)),
                      Rat(pct, 100)))
       IN  [error |-> "none",
            value |-> [marketing |-> share(15), sales |-> share(10),
                       engineering |-> share(25), operations |-> share(8),
                       admin |-> share(5), contingency |-> share(10)]]

\* _create_budget_allocations returning no allocations for a realistic
\* forecast without periods
BudgetGuarded(scenarios) ==
  IF "realistic" \notin DOMAIN scenarios
     \/ Len(scenarios["realistic"].predictions) = 0
  THEN [error |-> "none", value |-> EmptyDict]
  ELSE LET avg_monthly_revenue ==
             RDiv(Total(scenarios["realistic"], "revenue"),
                  RInt(Len(scenarios["realistic"].predictions)))
           share(pct) == Dec(RMul(avg_monthly_revenue, Rat(pct, 100)))
       IN  [error |-> "none",
            value |-> [marketing |-> share(15), sales |-> share(10),
                       engineering |-> share(25), operations |-> share(8),
                       admin |-> share(5), contingency |-> share(10)]]

\* _create_budget_allocations: the error raised ("none" when it returns) and
\* the allocations
CreateBudgetAllocations(scenarios) ==
  IF "realistic" \notin DOMAIN scenarios
  THEN [error |-> "none", value |-> EmptyDict]
  ELSE IF Len(scenarios["realistic"].predictions) = 0
       THEN [error |-> "ZeroDivisionError", value |-> EmptyDict]
       ELSE LET avg_monthly_revenue ==
                  RDiv(Total(scenarios["realistic"], "revenue"),
                       RInt(Len(scenarios["realistic"].predictions)))
                share(pct) == Dec(RMul(avg_monthly_revenue, Rat(pct, 100)))
            IN  [error |-> "none",
                 value |-> [marketing |-> share(15),
                            sales |-> share(10),
                            engineering |-> share(25),
                            operations |-> share(8),
                            admin |-> share(5),
                            contingency |-> share(10)]]

\* _set_kpi_targets returning targets of zero when a scenario is missing
KpiTargetsZeroed(scenarios) ==
  LET total(name) == IF name \in DOMAIN scenarios
                     THEN Total(scenarios[name], "revenue") ELSE RZero
      target_revenue == RDiv(RAdd(total("realistic"), total("optimistic")), RInt(2))
  IN  [annual_revenue |-> Dec(target_revenue),
       monthly_revenue |-> Dec(RDiv(target_revenue, RInt(12))),
       gross_margin |-> Dec(Rat(70, 100)),
       customer_acquisition_cost |-> Dec(RInt(100)),
       customer_lifetime_value |-> Dec(RInt(1000)),
       cash_runway_months |-> Dec(RInt(18)),
       burn_rate |-> Dec(RDiv(RMul(target_revenue, Rat(8, 10)), RInt(12)))]

\* _set_kpi_targets taking the monthly figures over the realistic horizon
KpiTargetsByHorizon(scenarios) ==
  IF "realistic" \notin DOMAIN scenarios \/ "optimistic" \notin DOMAIN scenarios
  THEN EmptyDict
  ELSE LET target_revenue ==
             RDiv(RAdd(Total(scenarios["realistic"], "revenue"),
                       Total(scenarios["optimistic"], "revenue")),
                  RInt(2))
           months == IF Len(scenarios["realistic"].predictions) > 0
                     THEN Len(scenarios["realistic"].predictions) ELSE 12
       IN  [annual_revenue |-> Dec(target_revenue),
            monthly_revenue |-> Dec(RDiv(target_revenue, RInt(months))),
            gross_margin |-> Dec(Rat(70, 100)),
            customer_acquisition_cost |-> Dec(RInt(100)),
            customer_lifetime_value |-> Dec(RInt(1000)),
            cash_runway_months |-> Dec(RInt(18)),
            burn_rate |-> Dec(RDiv(RMul(target_revenue, Rat(8, 10)), RInt(months)))]

\* _set_kpi_targets
SetKpiTargets(scenarios) ==
  IF "realistic" \notin DOMAIN scenarios \/ "optimistic" \notin DOMAIN scenarios
  THEN EmptyDict
  ELSE LET target_revenue ==
             RDiv(RAdd(Total(scenarios["realistic"], "revenue"),
                       Total(scenarios["optimistic"], "revenue")),
                  RInt(2))
       IN  [annual_revenue |-> Dec(target_revenue),
            monthly_revenue |-> Dec(RDiv(target_revenue, RInt(12))),
            gross_margin |-> Dec(Rat(70, 100)),
            customer_acquisition_cost |-> Dec(RInt(100)),
            customer_lifetime_value |-> Dec(RInt(1000)),
            cash_runway_months |-> Dec(RInt(18)),
            burn_rate |-> Dec(RDiv(RMul(target_revenue, Rat(8, 10)), RInt(12)))]

\* negative_cash_flow_months of _identify_risk_factors
NegativeCashFlowMonths(forecast) ==
  Cardinality({k \in 1..Len(forecast.predictions) :
                 RLt(forecast.predictions[k]["cash_flow"], RZero)})

CashFlowRisk(months) ==
  [type |-> "cash_flow_risk", severity |-> "high", months |-> months,
   mitigation |-> "Ensure adequate cash reserves and credit facilities"]

StaticRisks ==
  << [type |-> "revenue_concentration", severity |-> "medium",
      mitigation |-> "Diversify revenue sources and customer base"],
     [type |-> "market_risk", severity |-> "medium",
      mitigation |-> "Maintain flexible cost structure and contingency planning"],
     [type |-> "operational_risk", severity |-> "low",
      mitigation |-> "Implement succession planning and system redundancy"] >>

\* _identify_risk_factors reporting the cash-flow risk from three months on
RiskFactorsFromThree(scenarios) ==
  (IF "pessimistic" \in DOMAIN scenarios
      /\ NegativeCashFlowMonths(scenarios["pessimistic"]) >= 3
   THEN <<CashFlowRisk(NegativeCashFlowMonths(scenarios["pessimistic"]))>>
   ELSE <<>>)
  \o StaticRisks

\* _identify_risk_factors
IdentifyRiskFactors(scenarios) ==
  (IF "pessimistic" \in DOMAIN scenarios
      /\ NegativeCashFlowMonths(scenarios["pessimistic"]) > 3
   THEN <<CashFlowRisk(NegativeCashFlowMonths(scenarios["pessimistic"]))>>
   ELSE <<>>)
  \o StaticRisks

(* ---------------------------- serialization --------------------------- *)
\* dataclasses.asdict: a dataclass instance becomes a plain dict of its
\* fields, and so does every dataclass instance nested in its containers
AsDictForecast(forecast) == [forecast EXCEPT !.cls = "dict"]

AsDictPlan(plan) ==
  [plan EXCEPT !.cls = "dict",
               !.scenarios = [k \in DOMAIN plan.scenarios |->
                                AsDictForecast(plan.scenarios[k])]]

\* whether the object has a to_dict method: dataclass instances do, dicts do not
HasToDict(obj) == obj.cls \in {"Forecast", "FinancialPlan", "FinancialMetric"}

\* Forecast.to_dict: the enum members and datetimes are replaced by their
\* values and ISO strings, the predictions are left as they are
ForecastToDict(forecast) ==
  [AsDictForecast(forecast) EXCEPT !.period_start = Str(@),
                                   !.period_end = Str(@),
                                   !.created_at = Str(@)]

\* FinancialPlan.to_dict: the error raised ("none" when it returns) and the dict
PlanToDict(plan) ==
  LET data == AsDictPlan(plan)
  IN  IF \E k \in DOMAIN data.scenarios : ~HasToDict(data.scenarios[k])
      THEN [error |-> "AttributeError", value |-> EmptyDict]
      ELSE [error |-> "none",
            value |->
              [data EXCEPT
                 !.scenarios = [k \in DOMAIN data.scenarios |->
                                  ForecastToDict(data.scenarios[k])],
                 !.budget_allocations = [k \in DOMAIN data.budget_allocations |->
                                           Str(data.budget_allocations[k].decimal)],
                 !.kpi_targets = [k \in DOMAIN data.kpi_targets |->
                                    Str(data.kpi_targets[k].decimal)],
                 !.created_at = Str(@),
                 !.updated_at = Str(@)]]

(* ------------------------------ plan builder --------------------------- *)
\* the FinancialPlan dataclass
FinancialPlan(id, name, planning_horizon, scenarios, budget, kpis, risks) ==
  [cls |-> "FinancialPlan",
   plan_id |-> id,
   name |-> name,
   planning_horizon |-> planning_horizon,
   scenarios |-> scenarios,
   budget_allocations |-> budget,
   kpi_targets |-> kpis,
   risk_factors |-> risks,
   created_at |-> "now",
   updated_at |-> "now"]

\* number of generate_forecast calls the scenario loop makes
PlanForecastCount == Len(ScenarioOrder) * Len(PlanForecastTypes)

\* The nested loops of create_financial_plan from their j-th generate_forecast
\* call on.  st carries the forecasts list, the generator state, the next
\* uuid, scenario_forecasts of the scenario under way and scenarios so far;
\* an error ends the loop where it is raised.
LoopScenario(j) == ScenarioOrder[((j - 1) \div Len(PlanForecastTypes)) + 1]
LoopForecastType(j) == PlanForecastTypes[((j - 1) % Len(PlanForecastTypes)) + 1]

\* the scenario loop with one point list shared by the forecasts: the list
\* of the newest forecast is the list of every forecast stored before it
LoopForecastShared(st, forecast_type, res) ==
  [st EXCEPT !.forecasts =
                Append([i \in 1..Len(@) |->
                          [@[i] EXCEPT !.predictions = res.forecast.predictions]],
                       res.forecast),
             !.rng = res.rng,
             !.next_id = @ + 1,
             !.scenario_forecasts =
                [k \in DOMAIN @ \cup {forecast_type} |->
                   IF k = forecast_type THEN res.forecast ELSE @[k]]]

\* scenario_forecasts[forecast_type] = forecast, the forecast being the one
\* generate_forecast has appended and stored
LoopForecastMade(st, forecast_type, res) ==
  [st EXCEPT !.forecasts = Append(@, res.forecast),
             !.rng = res.rng,
             !.next_id = @ + 1,
             !.scenario_forecasts =
                [k \in DOMAIN @ \cup {forecast_type} |->
                   IF k = forecast_type THEN res.forecast ELSE @[k]]]

\* the end of a scenario appending the combined forecast to forecasts as well
LoopScenarioPublished(made, scenario_type, forecast_months, j) ==
  IF j % Len(PlanForecastTypes) # 0 THEN made
  ELSE [made EXCEPT
          !.forecasts =
             Append(@, CombineForecasts(made.scenario_forecasts, scenario_type,
                                        forecast_months, made.next_id)),
          !.scenarios =
             [k \in DOMAIN @ \cup {scenario_type} |->
                IF k = scenario_type
                THEN CombineForecasts(made.scenario_forecasts, scenario_type,
                                      forecast_months, made.next_id)
                ELSE @[k]],
          !.next_id = @ + 1,
          !.scenario_forecasts = EmptyDict]

\* scenarios[scenario_type.value] = combined_forecast, after the last
\* category of a scenario
LoopScenarioClosed(made, scenario_type, forecast_months, j) ==
  IF j % Len(PlanForecastTypes) # 0 THEN made
  ELSE [made EXCEPT
          !.scenarios =
             [k \in DOMAIN @ \cup {scenario_type} |->
                IF k = scenario_type
                THEN CombineForecasts(made.scenario_forecasts, scenario_type,
                                      forecast_months, made.next_id)
                ELSE @[k]],
          !.next_id = @ + 1,
          !.scenario_forecasts = EmptyDict]

RECURSIVE ScenarioLoop(_, _, _, _)
\* the step of the loop discarding the forecasts made so far when a
\* generate_forecast call raises
LoopStepDiscarding(hd, forecast_months, st, j, res) ==
  IF res.error # "none" THEN [st EXCEPT !.error = res.error, !.forecasts = <<>>]
  ELSE ScenarioLoop(hd, forecast_months,
                    LoopScenarioClosed(LoopForecastMade(st, LoopForecastType(j), res),
                                       LoopScenario(j), forecast_months, j),
                    j + 1)

LoopStep(hd, forecast_months, st, j, res) ==
  IF res.error # "none" THEN [st EXCEPT !.error = res.error]
  ELSE ScenarioLoop(hd, forecast_months,
                    LoopScenarioClosed(LoopForecastMade(st, LoopForecastType(j), res),
                                       LoopScenario(j), forecast_months, j),
                    j + 1)

ScenarioLoop(hd, forecast_months, st, j) ==
  IF j > PlanForecastCount THEN st
  ELSE LoopStep(hd, forecast_months, st, j,
                GenerateForecast(hd, LoopForecastType(j), LoopScenario(j),
                                 forecast_months, st.rng, st.next_id))

\* create_financial_plan on store hd: the error it raises ("none" when it
\* returns), and the forecasts list, the plans list, the generator state and
\* the next uuid it leaves
PlanLeft(looped, err, plans, result, nid) ==
  [error |-> err, forecasts |-> looped.forecasts, financial_plans |-> plans,
   rng |-> looped.rng, next_id |-> nid, result |-> result]

\* the end of create_financial_plan registering the plan only once it has
\* been stored in memory
PlanStoredFirst(looped, plans, plan) ==
  PlanLeft(looped, PlanToDict(plan).error,
           IF PlanToDict(plan).error = "none" THEN Append(plans, plan) ELSE plans,
           IF PlanToDict(plan).error = "none" THEN plan ELSE "none",
           looped.next_id + 1)

\* self.financial_plans.append(plan), then _store_plan_in_memory, which
\* builds memory_data from plan.to_dict(), then return plan
PlanAppended(looped, plans, plan) ==
  PlanLeft(looped, PlanToDict(plan).error, Append(plans, plan),
           IF PlanToDict(plan).error = "none" THEN plan ELSE "none",
           looped.next_id + 1)

PlanBudgeted(looped, plans, plan_name, planning_horizon, budget) ==
  IF budget.error # "none"
  THEN PlanLeft(looped, budget.error, plans, "none", looped.next_id)
  ELSE PlanAppended(looped, plans,
                    FinancialPlan(looped.next_id, plan_name, planning_horizon,
                                  looped.scenarios, budget.value,
                                  SetKpiTargets(looped.scenarios),
                                  IdentifyRiskFactors(looped.scenarios)))

PlanLooped(looped, plans, plan_name, planning_horizon) ==
  IF looped.error # "none"
  THEN PlanLeft(looped, looped.error, plans, "none", looped.next_id)
  ELSE PlanBudgeted(looped, plans, plan_name, planning_horizon,
                    CreateBudgetAllocations(looped.scenarios))

CreateFinancialPlan(hd, fs, plans, r, id, plan_name, planning_horizon, forecast_months) ==
  PlanLooped(ScenarioLoop(hd, forecast_months,
                          [forecasts |-> fs, rng |-> r, next_id |-> id,
                           error |-> "none", scenario_forecasts |-> EmptyDict,
                           scenarios |-> EmptyDict], 1),
             plans, plan_name, planning_horizon)

(* ----------------------------- report renderer ------------------------ *)
\* _generate_executive_summary
GenerateExecutiveSummary(plan) ==
  IF "realistic" \notin DOMAIN plan.scenarios THEN EmptyDict
  ELSE LET realistic == plan.scenarios["realistic"]
           total_revenue == Total(realistic, "revenue")
           total_expenses == Total(realistic, "expenses")
       IN  [planning_period |-> plan.planning_horizon,
            projected_revenue |-> Str(total_revenue),
            projected_expenses |-> Str(total_expenses),
            projected_net_income |-> Str(RSub(total_revenue, total_expenses)),
            key_assumptions |-> realistic.assumptions,
            confidence_level |-> Str(RMul(realistic.model_accuracy, RInt(100)))]

\* _generate_scenario_analysis
GenerateScenarioAnalysis(plan) ==
  [name \in DOMAIN plan.scenarios |->
     LET forecast == plan.scenarios[name]
     IN  [total_revenue |-> Str(Total(forecast, "revenue")),
          total_expenses |-> Str(Total(forecast, "expenses")),
          net_income |-> Str(RSub(Total(forecast, "revenue"), Total(forecast, "expenses"))),
          assumptions |-> forecast.assumptions]]

RECURSIVE SumOver(_, _)
SumOver(f, keys) ==
  IF keys = {} THEN RZero
  ELSE LET k == CHOOSE x \in keys : TRUE
       IN  RAdd(f[k].decimal, SumOver(f, keys \ {k}))

\* _generate_budget_breakdown
GenerateBudgetBreakdown(plan) ==
  LET total_budget == SumOver(plan.budget_allocations, DOMAIN plan.budget_allocations)
  IN  [total_budget |-> Str(total_budget),
       allocations |->
         [category \in DOMAIN plan.budget_allocations |->
            [amount |-> Str(plan.budget_allocations[category].decimal),
             percentage |->
               IF RLt(RZero, total_budget)
               THEN Str(RMul(RDiv(plan.budget_allocations[category].decimal,
                                  total_budget), RInt(100)))
               ELSE Str(RZero)]]]

\* _generate_kpi_dashboard
GenerateKpiDashboard(plan) ==
  [targets |-> [k \in DOMAIN plan.kpi_targets |-> Str(plan.kpi_targets[k].decimal)],
   tracking_frequency |-> "monthly",
   review_schedule |-> "quarterly"]

CountSeverity(risks, severity) ==
  Cardinality({i \in 1..Len(risks) : risks[i].severity = severity})

\* _generate_risk_assessment
GenerateRiskAssessment(plan) ==
  [summary |-> [high_risk_factors |-> CountSeverity(plan.risk_factors, "high"),
                medium_risk_factors |-> CountSeverity(plan.risk_factors, "medium"),
                low_risk_factors |-> CountSeverity(plan.risk_factors, "low"),
                total_risk_factors |-> Len(plan.risk_factors)],
   detailed_risks |-> plan.risk_factors]

\* _generate_recommendations
GenerateRecommendations(plan) ==
  << [category |-> "Revenue Optimization", priority |-> "High"],
     [category |-> "Cost Management", priority |-> "Medium"],
     [category |-> "Cash Flow", priority |-> "High"],
     [category |-> "Risk Management", priority |-> "Medium"] >>

\* generate_planning_report: the error raised ("none" when it returns) and the
\* report; the entries of the report are evaluated in order, the plan first
ReportOfPlan(plan, serialized) ==
  IF serialized.error # "none"
  THEN [error |-> serialized.error, report |-> "none"]
  ELSE [error |-> "none",
        report |->
          [plan |-> serialized.value,
           executive_summary |-> GenerateExecutiveSummary(plan),
           scenario_analysis |-> GenerateScenarioAnalysis(plan),
           budget_breakdown |-> GenerateBudgetBreakdown(plan),
           kpi_dashboard |-> GenerateKpiDashboard(plan),
           risk_assessment |-> GenerateRiskAssessment(plan),
           recommendations |-> GenerateRecommendations(plan)]]

\* a lookup that takes the plans whatever their identifier
FindAnyPlan(plans, plan_id) == plans

\* next((p for p in self.financial_plans if p.plan_id == plan_id), None)
FindPlan(plans, plan_id) == SelectSeq(plans, LAMBDA p : p.plan_id = plan_id)

GeneratePlanningReport(plans, plan_id) ==
  IF FindPlan(plans, plan_id) = <<>> THEN [error |-> "ValueError", report |-> "none"]
  ELSE ReportOfPlan(Head(FindPlan(plans, plan_id)),
                    PlanToDict(Head(FindPlan(plans, plan_id))))

(* ------------------------------- metrics ------------------------------- *)
\* the FinancialMetric dataclass
FinancialMetric(id, metric_data) ==
  [cls |-> "FinancialMetric",
   metric_id |-> id,
   name |-> metric_data.name,
   value |-> metric_data.value,
   period |-> metric_data.period,
   category |-> metric_data.category]

\* the exception building a FinancialMetric from metric_data raises, "none"
\* when it is built: a missing key, or a value Decimal() cannot convert; the
\* arguments are evaluated in the order name, value, period, category
MetricError(metric_data) ==
  IF {"name", "value"} \ DOMAIN metric_data # {} THEN "KeyError"
  ELSE IF metric_data \in Inconvertible THEN "InvalidOperation"
       ELSE IF {"period", "category"} \ DOMAIN metric_data # {} THEN "KeyError"
            ELSE "none"

\* the loop of add_historical_data appending the batch only when every
\* record of it can be built
RECURSIVE AddLoopAtomic(_, _, _)
AddLoopAtomic(st, metrics, k) ==
  IF \E i \in k..Len(metrics) : MetricError(metrics[i]) # "none"
  THEN [st EXCEPT !.error =
          MetricError(metrics[CHOOSE i \in k..Len(metrics) :
                                /\ MetricError(metrics[i]) # "none"
                                /\ \A h \in k..(i - 1) : MetricError(metrics[h]) = "none"])]
  ELSE IF k > Len(metrics) THEN st
       ELSE AddLoopAtomic([st EXCEPT
                             !.historical_data =
                                Append(@, FinancialMetric(st.next_id, metrics[k])),
                             !.next_id = @ + 1],
                          metrics, k + 1)

\* the loop of add_historical_data keeping the store in the order of the
\* periods instead of the order of arrival
RECURSIVE AddLoopSorted(_, _, _)
AddLoopSorted(st, metrics, k) ==
  IF k > Len(metrics) THEN st
  ELSE IF MetricError(metrics[k]) # "none"
       THEN [st EXCEPT !.error = MetricError(metrics[k])]
       ELSE AddLoopSorted([st EXCEPT
                             !.historical_data =
                                InsertRow(@, FinancialMetric(st.next_id, metrics[k])),
                             !.next_id = @ + 1],
                          metrics, k + 1)

\* the loop of add_historical_data over metrics from its k-th record on
RECURSIVE AddLoop(_, _, _)
AddLoop(st, metrics, k) ==
  IF k > Len(metrics) THEN st
  ELSE IF MetricError(metrics[k]) # "none"
       THEN [st EXCEPT !.error = MetricError(metrics[k])]
       ELSE AddLoop([st EXCEPT
                       !.historical_data = Append(@, FinancialMetric(st.next_id, metrics[k])),
                       !.next_id = @ + 1],
                    metrics, k + 1)

(* -------------------------------- engine ------------------------------- *)
Init ==
  /\ historical_data = <<>>
  /\ forecasts = <<>>
  /\ financial_plans = <<>>
  /\ rng \in RngStates
  /\ next_id = 1
  /\ call = [op |-> "__init__", args |-> <<>>, error |-> "none", result |-> "none",
             effect |-> TRUE]
  /\ input = <<>>

\* the engine after add_historical_data has ended as `done` tells
Added(metrics, done) ==
  /\ historical_data' = done.historical_data
  /\ next_id' = done.next_id
  /\ call' = [op |-> "add_historical_data", args |-> metrics,
              error |-> done.error, result |-> "none",
              effect |-> done.historical_data # historical_data]

\* await engine.add_historical_data(metrics)
add_historical_data(metrics) ==
  /\ call.effect
  /\ Len(historical_data) + Len(metrics) <= MaxMetrics
  /\ Added(metrics, AddLoop([historical_data |-> historical_data,
                              next_id |-> next_id, error |-> "none"], metrics, 1))
  /\ UNCHANGED <<forecasts, financial_plans, rng, input>>

\* the engine after generate_forecast has ended as `res` tells
Forecasted(args, res) ==
  /\ forecasts' = IF res.error = "none" THEN Append(forecasts, res.forecast)
                  ELSE forecasts
  /\ rng' = res.rng
  /\ next_id' = IF res.error = "none" THEN next_id + 1 ELSE next_id
  /\ call' = [op |-> "generate_forecast", args |-> args, error |-> res.error,
              result |-> IF res.error = "none" THEN res.forecast ELSE "none",
              effect |-> res.error = "none"]

\* await engine.generate_forecast(forecast_type, scenario, forecast_months)
generate_forecast(forecast_type, scenario, forecast_months) ==
  /\ call.effect
  /\ Len(forecasts) < MaxForecasts
  /\ Forecasted(<<forecast_type, scenario, forecast_months>>,
                GenerateForecast(historical_data, forecast_type, scenario,
                                 forecast_months, rng, next_id))
  /\ UNCHANGED <<historical_data, financial_plans, input>>

\* the engine after create_financial_plan has ended as `res` tells
Planned(args, res) ==
  /\ forecasts' = res.forecasts
  /\ financial_plans' = res.financial_plans
  /\ rng' = res.rng
  /\ next_id' = res.next_id
  /\ call' = [op |-> "create_financial_plan", args |-> args,
              error |-> res.error, result |-> res.result,
              effect |-> res.forecasts # forecasts]

\* await engine.create_financial_plan(plan_name, planning_horizon, forecast_months)
create_financial_plan(plan_name, planning_horizon, forecast_months) ==
  /\ call.effect
  /\ Len(financial_plans) < MaxPlans
  /\ Len(forecasts) < MaxForecasts
  /\ Planned(<<plan_name, planning_horizon, forecast_months>>,
             CreateFinancialPlan(historical_data, forecasts, financial_plans, rng,
                                 next_id, plan_name, planning_horizon, forecast_months))
  /\ UNCHANGED <<historical_data, input>>

\* the identifiers a report is asked for: those of the plans, one of a
\* forecast, and one no object has
ReportIds ==
  {0} \cup {financial_plans[i].plan_id : i \in 1..Len(financial_plans)}
      \cup {forecasts[i].forecast_id : i \in 1..Len(forecasts)}

Reported(args, res) ==
  call' = [op |-> "generate_planning_report", args |-> args,
           error |-> res.error, result |-> res.report, effect |-> FALSE]

\* engine.generate_planning_report(plan_id)
generate_planning_report(plan_id) ==
  /\ call.effect
  /\ Reported(<<plan_id>>, GeneratePlanningReport(financial_plans, plan_id))
  /\ UNCHANGED <<historical_data, forecasts, financial_plans, rng, next_id, input>>

\* The operations do not read `call`, and a call without effect leaves a
\* state that differs from the one before it in `call` alone: whatever is
\* reachable after such a call is reachable without it.  The next call is
\* therefore taken from the states reached by a call that had an effect.
Next ==
  \/ \E metrics \in Batches : add_historical_data(metrics)
  \/ \E forecast_type \in ForecastType, scenario \in ScenarioType, forecast_months \in Horizons :
       generate_forecast(forecast_type, scenario, forecast_months)
  \/ \E planning_horizon \in PlanningHorizon, forecast_months \in Horizons :
       create_financial_plan("plan", planning_horizon, forecast_months)
  \/ \E plan_id \in ReportIds : generate_planning_report(plan_id)

Spec == Init /\ [][Next]_vars

(* ------------------- forecasting on a store of one kind ---------------- *)
\* The stores add_historical_data leaves when it is given up to MaxRows
\* records of SeriesKind, either all of one month or one per month.
MaxRows == 4
SeriesValues == {-1000, 0, 1000}

MonthPaths(n) == {[i \in 1..n |-> 1], [i \in 1..n |-> i]}

SeriesStores ==
  UNION { { [i \in 1..n |->
               FinancialMetric(i, [name |-> SeriesKind.name,
                                   category |-> SeriesKind.category,
                                   value |-> v[i],
                                   period |-> [ym |-> m[i], day |-> 10]])] :
              m \in MonthPaths(n), v \in [1..n -> SeriesValues] } :
          n \in 0..MaxRows }

InitForecast ==
  /\ historical_data \in SeriesStores
  /\ forecasts = <<>>
  /\ financial_plans = <<>>
  /\ rng \in RngStates
  /\ next_id = Len(historical_data) + 1
  /\ call = [op |-> "add_historical_data", args |-> historical_data,
             error |-> "none", result |-> "none", effect |-> TRUE]
  /\ input = <<>>

\* monthly_data as _generate_predictions hands it to the fitter of a category
MonthlyData(forecast_type) ==
  AggregateMonthlyData(PrepareHistoricalData(historical_data, forecast_type))

\* one fitter applied to the monthly series of a category that has data
Fitted(op, forecast_type, forecast_months, predictions) ==
  /\ call.op = "add_historical_data"
  /\ RelevantMetrics(historical_data, forecast_type) # <<>>
  /\ call' = [op |-> op, args |-> <<MonthlyData(forecast_type), forecast_months>>,
              error |-> "none", result |-> predictions, effect |-> FALSE]
  /\ UNCHANGED <<historical_data, forecasts, financial_plans, rng, next_id, input>>

linear_regression_forecast(forecast_type, forecast_months) ==
  Fitted("_linear_regression_forecast", forecast_type, forecast_months,
         LinearRegressionForecast(MonthlyData(forecast_type), forecast_months))

polynomial_regression_forecast(forecast_type, forecast_months) ==
  Fitted("_polynomial_regression_forecast", forecast_type, forecast_months,
         PolynomialRegressionForecast(MonthlyData(forecast_type), forecast_months))

arima_forecast(forecast_type, forecast_months) ==
  Fitted("_arima_forecast", forecast_type, forecast_months,
         ArimaForecast(MonthlyData(forecast_type), forecast_months))

exponential_smoothing_forecast(forecast_type, forecast_months) ==
  Fitted("_exponential_smoothing_forecast", forecast_type, forecast_months,
         ExponentialSmoothingForecast(MonthlyData(forecast_type), forecast_months))

simple_trend_forecast(forecast_type, forecast_months) ==
  Fitted("_simple_trend_forecast", forecast_type, forecast_months,
         SimpleTrendForecast(MonthlyData(forecast_type), forecast_months))

NextForecast ==
  \/ \E forecast_months \in Horizons :
       \/ linear_regression_forecast(REVENUE, forecast_months)
       \/ polynomial_regression_forecast(EXPENSES, forecast_months)
       \/ arima_forecast(CASH_FLOW, forecast_months)
       \/ exponential_smoothing_forecast(CASH_FLOW, forecast_months)
       \/ simple_trend_forecast(REVENUE, forecast_months)
  \/ \E forecast_type \in ForecastType, scenario \in ScenarioType, forecast_months \in Horizons :
       generate_forecast(forecast_type, scenario, forecast_months)
  \/ \E forecast_months \in Horizons :
       create_financial_plan("plan", "yearly", forecast_months)

SpecForecast == InitForecast /\ [][NextForecast]_vars

(* ------------------ the combiner and the plan derivations -------------- *)
\* _combine_forecasts, _create_budget_allocations, _set_kpi_targets,
\* _identify_risk_factors, _aggregate_monthly_data, _calculate_model_accuracy
\* and _apply_scenario_adjustments are functions of their arguments (the
\* last one of the generator state too).  They are applied
\* here to arguments drawn from bounded sets; `input` holds the argument.

\* a forecast of one category with the given predicted values
SourceForecast(forecast_type, scenario, values) ==
  Forecast(0, forecast_type, scenario, Len(values),
           [k \in 1..Len(values) |->
              [period |-> [from |-> [ym |-> 1, day |-> 1], days |-> 30 * k],
               predicted_value |-> RInt(values[k]),
               model |-> ModelType(forecast_type),
               scenario |-> scenario,
               adjustments |-> GetScenarioAdjustments(scenario, forecast_type)]],
           CalculateConfidenceInterval(forecast_type), DefaultAccuracy)

\* predicted values of a source forecast: up to MaxLen of them, rising by 100
SourceBases == {500, 1200}
RisingValues ==
  {[k \in 1..n |-> b + 100 * k] : n \in 0..MaxLen, b \in SourceBases}

\* what is drawn for one key of a dict: no entry, or an entry of these values
Absent == [present |-> FALSE, values |-> <<>>, cash_flow |-> <<>>]
Present(values, cash_flow) ==
  [present |-> TRUE, values |-> values, cash_flow |-> cash_flow]

\* scenario_forecasts handed to the combiner: any of the three categories
\* may be absent, and their forecasts may differ in length
CombinerChoices ==
  [{REVENUE, EXPENSES, CASH_FLOW} -> {Absent} \cup {Present(v, <<>>) : v \in RisingValues}]

CombinerInput(c) ==
  [t \in {k \in DOMAIN c : c[k].present} |-> SourceForecast(t, REALISTIC, c[t].values)]

\* cash-flow values over h periods, the first m of them negative
MaxPeriods == 5
CashPatterns ==
  {[k \in 1..h |-> IF k <= m THEN -500 ELSE 500] : m \in 0..MaxPeriods, h \in 0..MaxPeriods}

RevenueLevels == {1000, 2400}
FlatValues == {[k \in 1..n |-> b] : n \in 0..MaxLen, b \in RevenueLevels}

\* a combined forecast with the given revenue and cash flow, period by period
CombinedOf(scenario, revenue, cash_flow) ==
  CombineForecasts([t \in {REVENUE, EXPENSES, CASH_FLOW} |->
                      SourceForecast(t, scenario,
                        CASE t = REVENUE -> revenue
                          [] t = EXPENSES -> [k \in 1..Len(revenue) |-> 400]
                          [] OTHER -> cash_flow)],
                   scenario, Len(revenue), 0)

\* scenarios handed to the derivations: any scenario may be absent; the
\* realistic and optimistic ones vary in revenue and length, the pessimistic
\* one in the number of its periods and of those with a negative cash flow
FlatChoices == {Absent} \cup {Present(v, [k \in 1..Len(v) |-> 500]) : v \in FlatValues}
CashChoices == {Absent} \cup {Present([k \in 1..Len(p) |-> 1000], p) : p \in CashPatterns}

ScenarioChoices ==
  {c \in [ScenarioType -> FlatChoices \cup CashChoices] :
     /\ c[PESSIMISTIC] \in CashChoices
     /\ c[OPTIMISTIC] \in FlatChoices
     /\ c[REALISTIC] \in FlatChoices}

ScenarioInput(c) ==
  [sc \in {k \in DOMAIN c : c[k].present} |-> CombinedOf(sc, c[sc].values, c[sc].cash_flow)]

\* predictions handed to the scenario adjuster: up to MaxLen raw values, a
\* negative one and zero among them
RawValues == {-500, 0, 1000}
RawPredictions(values) ==
  [k \in 1..Len(values) |->
     [period |-> [from |-> [ym |-> 1, day |-> 1], days |-> 30 * k],
      predicted_value |-> RInt(values[k]),
      model |-> "linear_regression"]]

AdjusterChoices == UNION {[1..n -> RawValues] : n \in 0..MaxLen}

\* frames handed to the aggregator: up to MaxLen rows in any order of their
\* months, several rows in a month, months without rows in between
FrameMonths == {1, 2, 4}
FrameRows(c) ==
  [i \in 1..Len(c) |-> [period |-> [ym |-> c[i][1], day |-> 10], value |-> c[i][2]]]

FrameChoices == UNION {[1..n -> FrameMonths \X RawValues] : n \in 1..MaxLen}

\* frames handed to the accuracy estimator: one row a month, up to MaxFrame
\* rows, in ascending order of their periods
MaxFrame == 6
FrameValues == {500, 1000}
SortedFrame(values) ==
  [i \in 1..Len(values) |-> [period |-> [ym |-> i, day |-> 10], value |-> values[i]]]

SortedFrameChoices == UNION {[1..n -> FrameValues] : n \in 1..MaxFrame}

InitDerive ==
  /\ historical_data = <<>>
  /\ forecasts = <<>>
  /\ financial_plans = <<>>
  /\ rng \in RngStates
  /\ next_id = 1
  /\ call = [op |-> "__init__", args |-> <<>>, error |-> "none", result |-> "none",
             effect |-> TRUE]
  /\ \/ \E c \in CombinerChoices : input = [scenario_forecasts |-> CombinerInput(c)]
     \/ \E c \in ScenarioChoices : input = [scenarios |-> ScenarioInput(c)]
     \/ \E c \in AdjusterChoices : input = [predictions |-> RawPredictions(c)]
     \/ \E c \in FrameChoices : input = [df |-> FrameRows(c)]
     \/ \E c \in SortedFrameChoices : input = [historical_df |-> SortedFrame(c)]

\* a derivation applied to the drawn argument
Derived(op, args, error, result) ==
  /\ call.op = "__init__"
  /\ call' = [op |-> op, args |-> args, error |-> error, result |-> result,
              effect |-> FALSE]
  /\ UNCHANGED <<historical_data, forecasts, financial_plans, rng, input>>

\* self._combine_forecasts(scenario_forecasts, scenario_type, forecast_months)
combine_forecasts(scenario_type, forecast_months) ==
  /\ "scenario_forecasts" \in DOMAIN input
  /\ Derived("_combine_forecasts",
             <<input.scenario_forecasts, scenario_type, forecast_months>>, "none",
             CombineForecasts(input.scenario_forecasts, scenario_type,
                              forecast_months, next_id))
  /\ next_id' = next_id + 1

\* self._create_budget_allocations(scenarios)
create_budget_allocations ==
  /\ "scenarios" \in DOMAIN input
  /\ Derived("_create_budget_allocations", <<input.scenarios>>,
             CreateBudgetAllocations(input.scenarios).error,
             CreateBudgetAllocations(input.scenarios).value)
  /\ UNCHANGED next_id

\* self._set_kpi_targets(scenarios)
set_kpi_targets ==
  /\ "scenarios" \in DOMAIN input
  /\ Derived("_set_kpi_targets", <<input.scenarios>>, "none",
             SetKpiTargets(input.scenarios))
  /\ UNCHANGED next_id

\* self._identify_risk_factors(scenarios)
identify_risk_factors ==
  /\ "scenarios" \in DOMAIN input
  /\ Derived("_identify_risk_factors", <<input.scenarios>>, "none",
             IdentifyRiskFactors(input.scenarios))
  /\ UNCHANGED next_id

\* self._apply_scenario_adjustments(predictions, scenario, forecast_type)
apply_scenario_adjustments(scenario, forecast_type) ==
  /\ "predictions" \in DOMAIN input
  /\ call.op = "__init__"
  /\ call' = [op |-> "_apply_scenario_adjustments",
              args |-> <<input.predictions, scenario, forecast_type>>,
              error |-> "none",
              result |-> ApplyScenarioAdjustments(input.predictions, scenario,
                                                 forecast_type, rng),
              effect |-> FALSE]
  /\ rng' = RngAfter(rng, Len(input.predictions))
  /\ UNCHANGED <<historical_data, forecasts, financial_plans, next_id, input>>

\* self._aggregate_monthly_data(df)
aggregate_monthly_data ==
  /\ "df" \in DOMAIN input
  /\ Derived("_aggregate_monthly_data", <<input.df>>, "none",
             AggregateMonthlyData(input.df))
  /\ UNCHANGED next_id

\* self._calculate_model_accuracy(historical_df, forecast_type)
calculate_model_accuracy(forecast_type) ==
  /\ "historical_df" \in DOMAIN input
  /\ Derived("_calculate_model_accuracy", <<input.historical_df, forecast_type>>,
             "none", CalculateModelAccuracy(input.historical_df))
  /\ UNCHANGED next_id

CombineHorizons == -1..MaxLen

NextDerive ==
  \/ \E scenario_type \in ScenarioType, forecast_months \in CombineHorizons :
       combine_forecasts(scenario_type, forecast_months)
  \/ create_budget_allocations
  \/ set_kpi_targets
  \/ identify_risk_factors
  \/ \E scenario \in ScenarioType, forecast_type \in ForecastType :
       apply_scenario_adjustments(scenario, forecast_type)
  \/ aggregate_monthly_data
  \/ calculate_model_accuracy(REVENUE)

SpecDerive == InitDerive /\ [][NextDerive]_vars

(* ------------------------------ properties ----------------------------- *)
\* the store holds a relevant metric for each category a plan forecasts
PlanCategoriesCovered ==
  \A t \in 1..Len(PlanForecastTypes) :
    RelevantMetrics(historical_data, PlanForecastTypes[t]) # <<>>

\* the last call was create_financial_plan on a covered store, for at least
\* one month (the call leaves historical_data as it was)
PlanRequested ==
  /\ call.op = "create_financial_plan"
  /\ call.args[3] >= 1
  /\ PlanCategoriesCovered

\* C1: on a store with a relevant metric for each of revenue, expenses and
\* cash_flow and with forecast_months >= 1, create_financial_plan returns
\* without raising a FinancialPlan whose scenarios has exactly the keys
\* optimistic, realistic and pessimistic, each a combined Forecast of that
\* scenario with forecast_months records, and the plan is in financial_plans
\* exactly once.
C1_PlanReturned ==
  PlanRequested =>
    /\ call.error = "none"
    /\ call.result.cls = "FinancialPlan"
    /\ DOMAIN call.result.scenarios = ScenarioType
    /\ \A s \in ScenarioType :
         /\ call.result.scenarios[s].scenario = s
         /\ Len(call.result.scenarios[s].predictions) = call.args[3]
    /\ Cardinality({i \in 1..Len(financial_plans) :
                      financial_plans[i] = call.result}) = 1

\* C1, what the code does: the plan is built as claimed and appended to
\* financial_plans, and then the call raises
C1_PlanRaised ==
  /\ PlanRequested
  /\ call.error = "AttributeError"
  /\ Len(financial_plans) = 1
  /\ DOMAIN financial_plans[1].scenarios = ScenarioType
  /\ \A s \in ScenarioType :
       Len(financial_plans[1].scenarios[s].predictions) = call.args[3]

\* a float that is not below zero
NonNegative(x) == IF IsFinite(x) THEN x.n >= 0 ELSE x = PosInf

FitterOps ==
  {"_linear_regression_forecast", "_polynomial_regression_forecast",
   "_arima_forecast", "_exponential_smoothing_forecast", "_simple_trend_forecast"}

\* exactly h points, each non-negative unless the simple-trend fitter made it
PointsAsClaimed(predictions, h) ==
  /\ Len(predictions) = h
  /\ \A k \in 1..Len(predictions) :
       \/ NonNegative(predictions[k].predicted_value)
       \/ predictions[k].model = "simple_trend"

\* C2: for every non-empty monthly series and every horizon h (a number of
\* months, h >= 0) each fitter returns exactly h points, and every Forecast
\* generate_forecast returns has len(predictions) = forecast_months; every
\* point value is non-negative, except the points the simple-trend fitter
\* produces, which are not floored.
C2_HorizonPoints ==
  /\ (call.op \in FitterOps /\ call.args[2] >= 0) =>
        PointsAsClaimed(call.result, call.args[2])
  /\ (call.op = "generate_forecast" /\ call.error = "none" /\ call.args[3] >= 0) =>
        PointsAsClaimed(call.result.predictions, call.args[3])

\* C2, its case: the linear fitter on a falling series of two months returns
\* MaxMonths points, floored to zero
C2_FloorActed ==
  /\ call.op = "_linear_regression_forecast"
  /\ Len(call.args[1]) = 2
  /\ call.args[1][2].value < call.args[1][1].value
  /\ call.args[2] = MaxMonths
  /\ Len(call.result) = MaxMonths
  /\ \A k \in 1..MaxMonths :
       call.result[k].model = "linear_regression" /\ call.result[k].predicted_value = RZero

\* the strings of the supplied metrics that contain a keyword of a category,
\* letter case aside: "revenue", "payroll", "balance" and "cash_flow",
\* "subscription" and "payments", "marketing"
KeywordHits ==
  { <<"Monthly Revenue", REVENUE>>, <<"PAYROLL", EXPENSES>>,
    <<"Closing Balance", CASH_FLOW>>, <<"cash_flow", CASH_FLOW>>,
    <<"Subscription payments", REVENUE>>, <<"Subscription payments", CASH_FLOW>>,
    <<"marketing", EXPENSES>> }

\* some stored metric has a keyword of the category in its name or category
HasDataFor(hd, forecast_type) ==
  \E i \in 1..Len(hd) :
    <<hd[i].name, forecast_type>> \in KeywordHits
      \/ <<hd[i].category, forecast_type>> \in KeywordHits

\* C3: generate_forecast raises the no-data error exactly when no stored
\* metric is relevant to the requested category, so always for CHURN, which
\* has no keywords; the error reaches the caller with nothing retried or
\* done: historical_data, forecasts and financial_plans (and the generator
\* and the identifiers drawn) are as before the call.
C3_NoDataError ==
  [][call'.op = "generate_forecast" =>
       /\ (call'.error = "ValueError") <=> ~HasDataFor(historical_data, call'.args[1])
       /\ call'.args[1] = CHURN => call'.error = "ValueError"
       /\ call'.error = "ValueError" =>
            /\ call'.result = "none"
            /\ UNCHANGED <<historical_data, forecasts, financial_plans, rng, next_id>>]_vars

\* C3, its case: the store holds the churn metric and the revenue metric,
\* and a CHURN forecast has raised the no-data error
C3_ChurnRaised ==
  /\ call.op = "generate_forecast"
  /\ call.args[1] = CHURN
  /\ call.error = "ValueError"
  /\ \E i \in 1..Len(historical_data) : historical_data[i].category = "churn"
  /\ \E i \in 1..Len(historical_data) : historical_data[i].name = "Monthly Revenue"
  /\ forecasts = <<>>

\* C4: in every combined forecast, for every period index of the horizon,
\* revenue, expenses and cash_flow are the predicted value of the source
\* forecast of that name at that index, or 0 when that source has fewer
\* points or is absent, and net_income = revenue - expenses; a source that
\* underruns the horizon raises no error.
C4_NetIncome ==
  call.op = "_combine_forecasts" =>
    LET sf == call.args[1]
        h == call.args[3]
        P == call.result.predictions
    IN  /\ call.error = "none"
        /\ Len(P) = IF h > 0 THEN h ELSE 0
        /\ \A i \in 1..Len(P) :
             /\ \A key \in {"revenue", "expenses", "cash_flow"} :
                  P[i][key] = IF key \in DOMAIN sf /\ i <= Len(sf[key].predictions)
                              THEN sf[key].predictions[i].predicted_value
                              ELSE RZero
             /\ P[i].net_income = RSub(P[i].revenue, P[i].expenses)

\* C4, its case: the revenue forecast has one point, the expenses forecast
\* three and the cash-flow forecast is absent; the second of three combined
\* records has revenue 0, cash_flow 0 and a net income below zero
C4_Underrun ==
  /\ call.op = "_combine_forecasts"
  /\ DOMAIN call.args[1] = {REVENUE, EXPENSES}
  /\ Len(call.args[1][REVENUE].predictions) = 1
  /\ Len(call.args[1][EXPENSES].predictions) = 3
  /\ Len(call.result.predictions) = 3
  /\ call.result.predictions[2].revenue = RZero
  /\ call.result.predictions[2].cash_flow = RZero
  /\ call.result.predictions[2].net_income.n < 0
  /\ call.result.predictions[1].net_income # call.result.predictions[2].net_income

\* the number of periods of a forecast with a cash flow below zero
PeriodsBelowZero(forecast) ==
  Cardinality({k \in 1..Len(forecast.predictions) :
                 forecast.predictions[k].cash_flow.n < 0})

\* C5: the risk-factor list has an entry of type cash_flow_risk, of severity
\* high, if and only if the pessimistic combined forecast has more than 3
\* periods with cash_flow < 0; the entries revenue_concentration, market_risk
\* and operational_risk are there in every case, also without a pessimistic
\* scenario.
C5_CashFlowRisk ==
  call.op = "_identify_risk_factors" =>
    LET scenarios == call.args[1]
        risks == call.result
    IN  /\ (\E i \in 1..Len(risks) : risks[i].type = "cash_flow_risk")
              <=> /\ PESSIMISTIC \in DOMAIN scenarios
                  /\ PeriodsBelowZero(scenarios[PESSIMISTIC]) > 3
        /\ \A i \in 1..Len(risks) :
             risks[i].type = "cash_flow_risk" => risks[i].severity = "high"
        /\ \A type \in {"revenue_concentration", "market_risk", "operational_risk"} :
             \E i \in 1..Len(risks) : risks[i].type = type

\* C5, its case: four of the five pessimistic periods have a negative cash
\* flow and the list has the cash-flow risk before the three static entries
C5_FourBelowZero ==
  /\ call.op = "_identify_risk_factors"
  /\ PESSIMISTIC \in DOMAIN call.args[1]
  /\ Len(call.args[1][PESSIMISTIC].predictions) = 5
  /\ PeriodsBelowZero(call.args[1][PESSIMISTIC]) = 4
  /\ Len(call.result) = 4
  /\ call.result[1].type = "cash_flow_risk"

\* the average monthly revenue of a forecast with at least one period
AverageRevenue(forecast) ==
  RDiv(RSum([k \in 1..Len(forecast.predictions) |-> forecast.predictions[k].revenue]),
       RInt(Len(forecast.predictions)))

\* C6: the budget allocations are fixed fractions of the average monthly
\* revenue A of the realistic scenario: marketing 0.15 A, sales 0.10 A,
\* engineering 0.25 A, operations 0.08 A, admin 0.05 A, contingency 0.10 A;
\* they sum to 0.73 A, and for A = 1000 they are 150, 100, 250, 80, 50, 100.
C6_BudgetShares ==
  (/\ call.op = "_create_budget_allocations"
   /\ REALISTIC \in DOMAIN call.args[1]
   /\ Len(call.args[1][REALISTIC].predictions) > 0) =>
    LET A == AverageRevenue(call.args[1][REALISTIC])
        b == call.result
    IN  /\ call.error = "none"
        /\ b = [marketing |-> Dec(RMul(Rat(15, 100), A)),
                sales |-> Dec(RMul(Rat(10, 100), A)),
                engineering |-> Dec(RMul(Rat(25, 100), A)),
                operations |-> Dec(RMul(Rat(8, 100), A)),
                admin |-> Dec(RMul(Rat(5, 100), A)),
                contingency |-> Dec(RMul(Rat(10, 100), A))]
        /\ SumOver(b, DOMAIN b) = RMul(Rat(73, 100), A)
        /\ A = RInt(1000) =>
             b = [marketing |-> Dec(RInt(150)), sales |-> Dec(RInt(100)),
                  engineering |-> Dec(RInt(250)), operations |-> Dec(RInt(80)),
                  admin |-> Dec(RInt(50)), contingency |-> Dec(RInt(100))]

\* C6, its case: a realistic scenario of three periods whose average
\* monthly revenue is 1000, allocated 150, ..., summing to 730
C6_Thousand ==
  /\ call.op = "_create_budget_allocations"
  /\ REALISTIC \in DOMAIN call.args[1]
  /\ Len(call.args[1][REALISTIC].predictions) = 3
  /\ AverageRevenue(call.args[1][REALISTIC]) = RInt(1000)
  /\ call.result.marketing = Dec(RInt(150))
  /\ SumOver(call.result, DOMAIN call.result) = RInt(730)

\* the total revenue of a forecast
TotalRevenue(forecast) ==
  RSum([k \in 1..Len(forecast.predictions) |-> forecast.predictions[k].revenue])

\* C7: with the realistic and the optimistic scenario present, the KPI
\* annual_revenue is (realistic total revenue + optimistic total revenue) / 2
\* and monthly_revenue is annual_revenue / 12, whatever the horizon length.
C7_KpiTargets ==
  (/\ call.op = "_set_kpi_targets"
   /\ {REALISTIC, OPTIMISTIC} \subseteq DOMAIN call.args[1]) =>
    LET annual == RDiv(RAdd(TotalRevenue(call.args[1][REALISTIC]),
                            TotalRevenue(call.args[1][OPTIMISTIC])), RInt(2))
    IN  /\ call.result.annual_revenue = Dec(annual)
        /\ call.result.monthly_revenue = Dec(RDiv(annual, RInt(12)))

\* C7, its case: a realistic scenario of two periods at 1000 and an
\* optimistic one of three at 2400: annual_revenue 4600, monthly 4600 / 12
C7_ShortHorizon ==
  /\ call.op = "_set_kpi_targets"
  /\ {REALISTIC, OPTIMISTIC} \subseteq DOMAIN call.args[1]
  /\ Len(call.args[1][REALISTIC].predictions) = 2
  /\ Len(call.args[1][OPTIMISTIC].predictions) = 3
  /\ call.result.annual_revenue = Dec(RInt(4600))
  /\ call.result.monthly_revenue = Dec(Rat(4600, 12))

\* the monthly series of the category of the last generate_forecast call
\* (the call leaves historical_data as it was)
ForecastSeries ==
  AggregateMonthlyData(PrepareHistoricalData(historical_data, call.args[1]))

\* C8: the model_accuracy of a forecast is exactly 0.7 whenever the monthly
\* series of its category has fewer than 4 points, and lies in [0, 0.95]
\* otherwise, also when a held-out actual value is 0.
C8_Accuracy ==
  (call.op = "generate_forecast" /\ call.error = "none") =>
    IF Len(ForecastSeries) < 4
    THEN call.result.model_accuracy = Rat(7, 10)
    ELSE /\ RLe(RZero, call.result.model_accuracy)
         /\ RLe(call.result.model_accuracy, Rat(95, 100))

\* C8, what the code does: four records of 1000 in one month, a monthly
\* series of one point, and the accuracy is the cap 0.95
C8_FourRowsOneMonth ==
  /\ call.op = "generate_forecast"
  /\ call.error = "none"
  /\ Len(historical_data) = 4
  /\ \A i \in 1..4 : historical_data[i].value = 1000
  /\ Len(ForecastSeries) = 1
  /\ call.result.model_accuracy = Rat(95, 100)

\* the plans registered under the identifier the last report was asked for
\* (the call leaves financial_plans as it was)
PlansAskedFor ==
  {i \in 1..Len(financial_plans) : financial_plans[i].plan_id = call.args[1]}

\* C9: for every plan registered in financial_plans, generate_planning_report
\* returns a report with the sections executive_summary, scenario_analysis,
\* budget_breakdown, kpi_dashboard and risk_assessment, the serialized plan
\* and exactly 4 recommendation records; FinancialPlan.to_dict succeeds and
\* maps each scenario name to its serialized Forecast.
C9_ReportReturned ==
  (call.op = "generate_planning_report" /\ PlansAskedFor # {}) =>
    /\ call.error = "none"
    /\ DOMAIN call.result =
         {"plan", "executive_summary", "scenario_analysis", "budget_breakdown",
          "kpi_dashboard", "risk_assessment", "recommendations"}
    /\ Len(call.result.recommendations) = 4
    /\ \E i \in PlansAskedFor :
         /\ PlanToDict(financial_plans[i]).error = "none"
         /\ call.result.plan = PlanToDict(financial_plans[i]).value
         /\ \A name \in DOMAIN financial_plans[i].scenarios :
              call.result.plan.scenarios[name] =
                ForecastToDict(financial_plans[i].scenarios[name])

\* C9, what the code does: the report of a registered plan raises
C9_ReportRaised ==
  /\ call.op = "generate_planning_report"
  /\ PlansAskedFor # {}
  /\ call.error = "AttributeError"
  /\ call.result = "none"

\* C10: generate_planning_report with an identifier no plan in
\* financial_plans has raises the lookup error at once, makes no report and
\* leaves historical_data, forecasts and financial_plans as they were.
C10_UnknownPlan ==
  [][(/\ call'.op = "generate_planning_report"
      /\ \A i \in 1..Len(financial_plans) : financial_plans[i].plan_id # call'.args[1]) =>
       /\ call'.error = "ValueError"
       /\ call'.result = "none"
       /\ UNCHANGED <<historical_data, forecasts, financial_plans>>]_vars

\* C10, its case: a plan is registered and the report is asked for under the
\* identifier of a forecast
C10_ForecastId ==
  /\ call.op = "generate_planning_report"
  /\ Len(financial_plans) = 1
  /\ call.args[1] = forecasts[1].forecast_id
  /\ call.args[1] # financial_plans[1].plan_id
  /\ call.error = "ValueError"

\* a figure of a serialized object that is the str() of a decimal
DecimalString(v) == DOMAIN v = {"str"}

\* the figures of the serialized points of a forecast
SerializedFigures(forecast) ==
  {ForecastToDict(forecast).predictions[k][key] :
     k \in 1..Len(forecast.predictions),
     key \in {"predicted_value", "revenue", "expenses", "cash_flow", "net_income"}
             \cap UNION {DOMAIN forecast.predictions[j] : j \in 1..Len(forecast.predictions)}}

\* C11: in the serialized form of a Forecast and of a FinancialPlan every
\* monetary figure is a decimal string and never a float: the predicted_value
\* of each prediction, the revenue, expenses, cash_flow and net_income of each
\* combined record, the budget allocations and the KPI targets.
C11_DecimalStrings ==
  /\ \A i \in 1..Len(forecasts) :
       \A v \in SerializedFigures(forecasts[i]) : DecimalString(v)
  /\ \A i \in 1..Len(financial_plans) :
       LET plan == financial_plans[i]
       IN  /\ PlanToDict(plan).error = "none"
           /\ \A k \in DOMAIN plan.budget_allocations :
                DecimalString(PlanToDict(plan).value.budget_allocations[k])
           /\ \A k \in DOMAIN plan.kpi_targets :
                DecimalString(PlanToDict(plan).value.kpi_targets[k])
           /\ \A name \in DOMAIN plan.scenarios :
                \A v \in SerializedFigures(plan.scenarios[name]) : DecimalString(v)

\* C11, what the code does: a stored forecast whose serialized form holds a
\* positive float as predicted_value
C11_FloatPoint ==
  /\ call.op = "generate_forecast"
  /\ call.error = "none"
  /\ \E k \in 1..Len(call.result.predictions) :
       LET v == ForecastToDict(call.result).predictions[k].predicted_value
       IN  DOMAIN v = {"n", "d"} /\ IsFinite(v) /\ RLt(RZero, v)

\* the predictions the last generate_forecast call would have made had the
\* generator of `random` been in state r when it started
PredictionsFrom(r) ==
  GeneratePredictions(PrepareHistoricalData(historical_data, call.args[1]),
                      call.args[1], call.args[2], call.args[3], r)

\* C12: the random source of the scenario adjuster is a seedable input of its
\* own for each forecast task: the predictions of a generate_forecast run
\* are fixed by the store, the category, the scenario and the horizon, and do
\* not depend on the draws other tasks have taken before it, that is on the
\* state they left the generator in.
C12_IsolatedDraws ==
  (call.op = "generate_forecast" /\ call.error = "none") =>
    \A r \in RngStates : PredictionsFrom(r) = call.result.predictions

\* C12, what the code does: the same call gives other predictions when one
\* more draw has been taken from the generator before it
C12_DrawsShared ==
  /\ call.op = "generate_forecast"
  /\ call.error = "none"
  /\ Len(call.result.predictions) > 0
  /\ \E r \in RngStates :
       /\ PredictionsFrom(r) = call.result.predictions
       /\ PredictionsFrom(RngNext(r)) # call.result.predictions

\* C13: deriving plan fields from a scenarios map that lacks a scenario does
\* not raise: the budget allocations are the empty map when realistic is
\* absent, the KPI targets are the empty map when realistic or optimistic is
\* absent, and neither is a map of zero values.
C13_MissingScenario ==
  /\ (call.op = "_create_budget_allocations"
      /\ "realistic" \notin DOMAIN call.args[1]) =>
        (call.error = "none" /\ call.result = EmptyDict /\ DOMAIN call.result = {})
  /\ (call.op = "_set_kpi_targets"
      /\ ("realistic" \notin DOMAIN call.args[1]
          \/ "optimistic" \notin DOMAIN call.args[1])) =>
        (call.error = "none" /\ call.result = EmptyDict /\ DOMAIN call.result = {})

\* C13, its case: the KPI targets were derived from scenarios that hold a
\* realistic forecast of some revenue and no optimistic one
C13_OptimisticMissing ==
  /\ call.op = "_set_kpi_targets"
  /\ "realistic" \in DOMAIN call.args[1]
  /\ "optimistic" \notin DOMAIN call.args[1]
  /\ Len(call.args[1]["realistic"].predictions) > 0
  /\ call.result = EmptyDict

\* C14: the metric store is append-only over every sequence of engine
\* operations: add_historical_data only appends at the end, no operation
\* removes, reorders or changes a stored metric, and generate_forecast,
\* create_financial_plan and generate_planning_report leave historical_data
\* as it was.
C14_AppendOnly ==
  [][/\ Len(historical_data') >= Len(historical_data)
     /\ SubSeq(historical_data', 1, Len(historical_data)) = historical_data
     /\ (call'.op # "add_historical_data" => historical_data' = historical_data)]_vars

\* C14, its case: a metric was added after one of a later period, and is
\* stored behind it
C14_EarlierAppended ==
  /\ call.op = "add_historical_data"
  /\ call.error = "none"
  /\ Len(historical_data) > Len(call.args)
  /\ PeriodLt(historical_data[Len(historical_data)].period, historical_data[1].period)

\* number of draws the first j - 1 of the forecasts `made` have taken
RECURSIVE DrawsBefore(_, _)
DrawsBefore(made, j) ==
  IF j <= 1 THEN 0 ELSE DrawsBefore(made, j - 1) + Len(made[j - 1].predictions)

\* the points the j-th generate_forecast call of a create_financial_plan
\* call published, the call having started on store hd in generator state r
\* and having appended the forecasts `made`
PointsPublished(hd, forecast_months, r, made, j) ==
  GeneratePredictions(PrepareHistoricalData(hd, LoopForecastType(j)),
                      LoopForecastType(j), LoopScenario(j), forecast_months,
                      RngAfter(r, DrawsBefore(made, j)))

TableFitter(forecast_type) ==
  CASE forecast_type = REVENUE -> "_linear_regression_forecast"
    [] forecast_type = EXPENSES -> "_polynomial_regression_forecast"
    [] forecast_type = CASH_FLOW -> "_arima_forecast"
    [] forecast_type = GROWTH -> "_exponential_smoothing_forecast"
    [] OTHER -> "_linear_regression_forecast"

\* the fitter that produces the points when `op` is called on n monthly points
ProducerOf(op, n) ==
  CASE op = "_linear_regression_forecast" ->
         IF n < 2 THEN "simple_trend" ELSE "linear_regression"
    [] op = "_polynomial_regression_forecast" ->
         IF n < 2 THEN "simple_trend"
         ELSE IF n < 3 THEN "linear_regression" ELSE "polynomial_regression"
    [] op \in {"_arima_forecast", "_exponential_smoothing_forecast"} ->
         IF n < 2 THEN "simple_trend" ELSE "exponential_smoothing"
    [] OTHER -> "simple_trend"

\* C16: the fitter of a forecast is selected by the category alone through a
\* fixed table (revenue: linear regression, expenses: polynomial regression,
\* cash_flow: the ARIMA entry, which is exponential smoothing, growth:
\* exponential smoothing, a category without entry: linear regression), and
\* the model tag of every point names the fitter that produced it.
C16_FitterTable ==
  /\ (call.op \in FitterOps /\ call.error = "none") =>
       /\ \A forecast_type \in ForecastType :
            TableFitter(forecast_type) = call.op =>
              BasePredictions(call.args[1], forecast_type, call.args[2]) = call.result
       /\ call.op = "_arima_forecast" =>
            call.result = ExponentialSmoothingForecast(call.args[1], call.args[2])
       /\ \A k \in 1..Len(call.result) :
            call.result[k].model = ProducerOf(call.op, Len(call.args[1]))
  /\ (call.op = "generate_forecast" /\ call.error = "none") =>
       \A k \in 1..Len(call.result.predictions) :
         call.result.predictions[k].model =
           ProducerOf(TableFitter(call.args[1]), Len(ForecastSeries))

\* C16, its case: an expenses forecast over three months of data, its points
\* made by the polynomial regression
C16_PolynomialUsed ==
  /\ call.op = "generate_forecast"
  /\ call.error = "none"
  /\ call.args[1] = EXPENSES
  /\ Len(ForecastSeries) >= 3
  /\ Len(call.result.predictions) > 0
  /\ call.result.predictions[1].model = "polynomial_regression"

\* C17: too few monthly points for the preferred model is not an error:
\* polynomial regression with fewer than 3 points gives what linear
\* regression gives, linear regression and exponential smoothing with fewer
\* than 2 points give what the simple trend gives, and on every non-empty
\* series each of them returns as many points as the horizon has months.
C17_Fallbacks ==
  (call.op \in FitterOps /\ Len(call.args[1]) > 0) =>
    /\ call.error = "none"
    /\ call.args[2] >= 0 => Len(call.result) = call.args[2]
    /\ (call.op = "_polynomial_regression_forecast" /\ Len(call.args[1]) < 3) =>
         call.result = LinearRegressionForecast(call.args[1], call.args[2])
    /\ (call.op \in {"_linear_regression_forecast", "_exponential_smoothing_forecast"}
        /\ Len(call.args[1]) < 2) =>
         call.result = SimpleTrendForecast(call.args[1], call.args[2])

\* C17, its case: polynomial regression on two monthly points, answered by
\* the linear regression
C17_TwoPoints ==
  /\ call.op = "_polynomial_regression_forecast"
  /\ Len(call.args[1]) = 2
  /\ call.args[2] = MaxMonths
  /\ call.result[1].model = "linear_regression"
  /\ call.result # SimpleTrendForecast(call.args[1], call.args[2])

\* C18: on a series of a single point the exponential-smoothing fitter uses
\* trend 0 and extrapolates flat: every point of the horizon has the same
\* value, the last (only) smoothed value.
C18_FlatExtrapolation ==
  (call.op = "_exponential_smoothing_forecast" /\ Len(call.args[1]) = 1) =>
    /\ SmoothingTrend(call.args[1]) = RZero
    /\ \A k \in 1..Len(call.result) :
         call.result[k].predicted_value = Max0(Smoothed(call.args[1])[1])

\* C18, what the code does: on a single point of 1000 the first value
\* returned is 1050, made by the simple trend
C18_FivePercent ==
  /\ call.op = "_exponential_smoothing_forecast"
  /\ Len(call.args[1]) = 1
  /\ call.args[1][1].value = 1000
  /\ Len(call.result) > 0
  /\ call.result[1].predicted_value = RInt(1050)
  /\ call.result[1].model = "simple_trend"

\* the draws of the generator
UnitDraws == {RngDraws[i] : i \in 1..Len(RngDraws)}

\* raw * growth_factor * market_factor * (1 + draw * volatility)
AdjustedProduct(raw, factors, draw) ==
  RMul(RMul(RMul(raw, factors.growth_factor), factors.market_factor),
       RAdd(RInt(1), RMul(RInt(draw), factors.volatility)))

\* C19: for every pair of scenario and category that has no entry in the
\* adjustment table (any scenario with churn) the adjuster applies and
\* records the default factors growth_factor 1.0, volatility 0.1,
\* market_factor 1.0.
C19_DefaultFactors ==
  (call.op = "_apply_scenario_adjustments" /\ call.args[3] = CHURN) =>
    LET default == [growth_factor |-> RInt(1), volatility |-> Rat(1, 10),
                    market_factor |-> RInt(1)]
    IN  \A k \in 1..Len(call.result) :
          /\ call.result[k].adjustments = default
          /\ \E draw \in UnitDraws :
               call.result[k].predicted_value =
                 Max0(AdjustedProduct(call.args[1][k].predicted_value, default, draw))

\* C19, its case: a churn prediction of 1000 adjusted under the pessimistic
\* scenario with the draw at its upper end, which gives 1100
C19_ChurnAdjusted ==
  /\ call.op = "_apply_scenario_adjustments"
  /\ call.args[2] = PESSIMISTIC
  /\ call.args[3] = CHURN
  /\ Len(call.result) > 0
  /\ call.args[1][1].predicted_value = RInt(1000)
  /\ call.result[1].predicted_value = RInt(1100)

\* C20: the adjuster replaces each raw value r by
\* max(0, r * growth_factor * market_factor * (1 + u)) with u drawn from
\* [-volatility, +volatility], so that for r >= 0 the adjusted value lies
\* between r*g*m*(1 - volatility) and r*g*m*(1 + volatility); it keeps the
\* number and the order of the points, the period and the model tag of each,
\* and records on every point the scenario name and the factor table used.
C20_Adjusted ==
  call.op = "_apply_scenario_adjustments" =>
    LET raw == call.args[1]
        factors == GetScenarioAdjustments(call.args[2], call.args[3])
    IN  /\ Len(call.result) = Len(raw)
        /\ \A k \in 1..Len(raw) :
             /\ call.result[k].period = raw[k].period
             /\ call.result[k].model = raw[k].model
             /\ call.result[k].scenario = call.args[2]
             /\ call.result[k].adjustments = factors
             /\ \E draw \in UnitDraws :
                  call.result[k].predicted_value =
                    Max0(AdjustedProduct(raw[k].predicted_value, factors, draw))
             /\ RLe(RZero, call.result[k].predicted_value)
             /\ RLe(RZero, raw[k].predicted_value) =>
                  /\ RLe(AdjustedProduct(raw[k].predicted_value, factors, -1),
                         call.result[k].predicted_value)
                  /\ RLe(call.result[k].predicted_value,
                         AdjustedProduct(raw[k].predicted_value, factors, 1))

\* C20, its case: three points adjusted under the optimistic revenue
\* factors, a negative raw value floored at zero and a raw value of 1000
\* taken to its upper end 1000 * 1.25 * 1.1 * 1.15
C20_FlooredAndScaled ==
  /\ call.op = "_apply_scenario_adjustments"
  /\ call.args[2] = OPTIMISTIC
  /\ call.args[3] = REVENUE
  /\ Len(call.result) = MaxLen
  /\ \E k \in 1..Len(call.result) :
       /\ RLt(call.args[1][k].predicted_value, RZero)
       /\ call.result[k].predicted_value = RZero
  /\ \E k \in 1..Len(call.result) :
       /\ call.args[1][k].predicted_value = RInt(1000)
       /\ call.result[k].predicted_value = Rat(158125, 100)

\* the months of the rows of a frame
MonthsOf(df) == {df[i].period.ym : i \in 1..Len(df)}

\* the sum of the values of the rows of a frame that fall in month ym
MonthTotal(df, ym) ==
  LET f[i \in 0..Len(df)] ==
        IF i = 0 THEN 0
        ELSE f[i - 1] + (IF df[i].period.ym = ym THEN df[i].value ELSE 0)
  IN  f[Len(df)]

\* C21: the aggregator returns exactly one entry for each calendar month
\* present in its input, its value the sum of the input values of that
\* month, in ascending order of the months whatever the order of the input;
\* a month without data has no entry (it is not filled with zero).
C21_MonthlySums ==
  call.op = "_aggregate_monthly_data" =>
    LET df == call.args[1]
        out == call.result
    IN  /\ Len(out) = Cardinality(MonthsOf(df))
        /\ {out[k].period.ym : k \in 1..Len(out)} = MonthsOf(df)
        /\ \A k \in 1..Len(out) :
             /\ out[k].value = MonthTotal(df, out[k].period.ym)
             /\ k > 1 => out[k - 1].period.ym < out[k].period.ym

\* C21, its case: rows of months 4, 1, 4 in that order, aggregated to the
\* two entries of months 1 and 4, the second the sum of two rows of 1000
C21_UnorderedWithGap ==
  /\ call.op = "_aggregate_monthly_data"
  /\ Len(call.args[1]) = 3
  /\ call.args[1][1].period.ym = 4
  /\ call.args[1][2].period.ym = 1
  /\ call.args[1][3].period.ym = 4
  /\ Len(call.result) = 2
  /\ call.result[1].period.ym = 1
  /\ call.result[2].value = 2000

\* the accuracy of a linear regression fitted on all but the trailing `held`
\* rows of a frame and scored on those: min(max(0, 100 - MAPE) / 100, 0.95)
AccuracyHoldingOut(df, held) ==
  LET N == Len(df)
      test == SubSeq(df, N - held + 1, N)
      mape == Mape(test, LinearRegressionForecast(SubSeq(df, 1, N - held), held))
      accuracy == IF IsFinite(mape)
                  THEN RDiv(Max0(RSub(RInt(100), mape)), RInt(100))
                  ELSE RZero
  IN  IF RLt(Rat(95, 100), accuracy) THEN Rat(95, 100) ELSE accuracy

\* C22: for a series of N >= 4 points the accuracy estimator holds out the
\* trailing 25% with integer truncation, floor(0.25 * N) points, fits the
\* linear regression on the leading points alone and predicts as many points
\* as it held out, so that the default 0.7 of a length mismatch is never
\* taken.
C22_TrailingQuarter ==
  (call.op = "_calculate_model_accuracy" /\ Len(call.args[1]) >= 4) =>
    LET N == Len(call.args[1])
    IN  /\ N - SplitPoint(call.args[1]) = N \div 4
        /\ Len(LinearRegressionForecast(SubSeq(call.args[1], 1, N - (N \div 4)),
                                        N \div 4)) = N \div 4
        /\ call.result = AccuracyHoldingOut(call.args[1], N \div 4)

\* C22, what the code does: of five points it holds out two and fits on
\* three, which gives 0.75 on 500, 500, 500, 1000, 500
C22_TwoOfFive ==
  /\ call.op = "_calculate_model_accuracy"
  /\ Len(call.args[1]) = 5
  /\ [i \in 1..5 |-> call.args[1][i].value] = <<500, 500, 500, 1000, 500>>
  /\ call.result = Rat(75, 100)
  /\ call.result = AccuracyHoldingOut(call.args[1], 2)
  /\ AccuracyHoldingOut(call.args[1], 1) = RZero

\* C23: the simple-trend fitter guards against the division by a first
\* value of zero: on a series of at least 2 points whose first value is 0 it
\* does not divide by zero and returns horizon well-defined points; on fewer
\* than 2 points it uses the default growth rate of 5%.
C23_ZeroFirstValue ==
  call.op = "_simple_trend_forecast" =>
    LET series == call.args[1]
    IN  /\ (Len(series) >= 2 /\ series[1].value = 0) =>
             /\ call.error = "none"
             /\ call.args[2] >= 0 => Len(call.result) = call.args[2]
             /\ \A k \in 1..Len(call.result) : IsFinite(call.result[k].predicted_value)
        /\ Len(series) < 2 =>
             \A k \in 1..Len(call.result) :
               call.result[k].predicted_value =
                 RMul(RInt(series[Len(series)].value), RPow(Rat(105, 100), k))

\* C23, what the code does: on the series 0, 1000 the growth rate is the
\* quotient 1000 / 0 and every point is infinite
C23_InfinitePoints ==
  /\ call.op = "_simple_trend_forecast"
  /\ Len(call.args[1]) = 2
  /\ call.args[1][1].value = 0
  /\ call.args[1][2].value = 1000
  /\ call.args[2] = MaxMonths
  /\ \A k \in 1..Len(call.result) : call.result[k].predicted_value = PosInf

\* C24: create_financial_plan appends the new plan to financial_plans before
\* the step that stores it in memory and serializes it; when that step
\* raises, the exception reaches the caller and the plan stays registered:
\* registration and successful return are not atomic.
C24_RegisteredBeforeStored ==
  [][call'.op = "create_financial_plan" =>
       /\ financial_plans' # financial_plans =>
            /\ Len(financial_plans') = Len(financial_plans) + 1
            /\ SubSeq(financial_plans', 1, Len(financial_plans)) = financial_plans
            /\ call'.error = PlanToDict(financial_plans'[Len(financial_plans')]).error
            /\ call'.error = "none" => call'.result = financial_plans'[Len(financial_plans')]
       /\ call'.error = "AttributeError" =>
            /\ call'.result = "none"
            /\ Len(financial_plans') = Len(financial_plans) + 1
            /\ PlanToDict(financial_plans'[Len(financial_plans')]).error = "AttributeError"]_vars

\* C24, its case: the call raised from the serialization of the plan, the
\* nine forecasts and the plan are stored, and nothing was returned
C24_RaisedAndRegistered ==
  /\ call.op = "create_financial_plan"
  /\ call.error = "AttributeError"
  /\ call.result = "none"
  /\ Len(forecasts) = PlanForecastCount
  /\ Len(financial_plans) = 1
  /\ PlanToDict(financial_plans[1]).error = "AttributeError"

\* the places in the loop order of the plan categories the store has no
\* relevant metric for
Uncovered ==
  {t \in 1..Len(PlanForecastTypes) :
     RelevantMetrics(historical_data, PlanForecastTypes[t]) = <<>>}

RiskTypes(plan) == [i \in 1..Len(plan.risk_factors) |-> plan.risk_factors[i].type]

SeriesOf(forecast) ==
  AggregateMonthlyData(PrepareHistoricalData(historical_data, forecast.forecast_type))

\* C27: through generate_forecast the simple-trend fitter is reached only
\* when the monthly series of the category has exactly one point, so that
\* its growth rate is always the default 5% and its compound-growth branch,
\* with the division by the first value, is never taken by the public
\* operations.
C27_TrendOnOnePoint ==
  \A i \in 1..Len(forecasts) :
    \A k \in 1..Len(forecasts[i].predictions) :
      LET point == forecasts[i].predictions[k]
          series == SeriesOf(forecasts[i])
      IN  /\ point.model = "simple_trend" <=> Len(series) = 1
          /\ point.model = "simple_trend" =>
               \E draw \in UnitDraws :
                 point.predicted_value =
                   Max0(AdjustedProduct(RMul(RInt(series[1].value), RPow(Rat(105, 100), k)),
                                        point.adjustments, draw))

\* C27, its case: a forecast over two metrics of one month, made by the
\* simple trend from their sum
C27_OneMonth ==
  /\ call.op = "generate_forecast"
  /\ call.error = "none"
  /\ Len(historical_data) = 2
  /\ Len(SeriesOf(call.result)) = 1
  /\ SeriesOf(call.result)[1].value = 2000
  /\ Len(call.result.predictions) = MaxMonths
  /\ call.result.predictions[1].model = "simple_trend"

\* C28: a create_financial_plan call whose nine forecasts all succeed
\* appends exactly nine Forecasts to forecasts, scenario by scenario
\* (optimistic, realistic, pessimistic) and within each revenue, expenses,
\* cash_flow; a scenario is combined only after its three forecasts exist;
\* the three combined Forecasts are kept in the plan alone and never
\* appended to forecasts.
C28_NineForecasts ==
  [][(call'.op = "create_financial_plan" /\ Uncovered = {}) =>
       LET made == SubSeq(forecasts', Len(forecasts) + 1, Len(forecasts'))
       IN  /\ Len(made) = 9
           /\ SubSeq(forecasts', 1, Len(forecasts)) = forecasts
           /\ \A s \in 1..3 : \A t \in 1..3 :
                /\ made[3 * (s - 1) + t].scenario = ScenarioOrder[s]
                /\ made[3 * (s - 1) + t].forecast_type = PlanForecastTypes[t]
           /\ \A j \in 1..8 : made[j].forecast_id < made[j + 1].forecast_id
           /\ \A p \in 1..Len(financial_plans') :
                \A name \in DOMAIN financial_plans'[p].scenarios :
                  LET combined == financial_plans'[p].scenarios[name]
                  IN  /\ \A i \in 1..Len(forecasts') :
                           forecasts'[i].forecast_id # combined.forecast_id
                      /\ \A j \in 1..9 :
                           made[j].scenario = name =>
                             /\ made[j].forecast_id < combined.forecast_id
                             /\ \A k \in 1..Len(combined.predictions) :
                                  k <= Len(made[j].predictions) =>
                                    combined.predictions[k][made[j].forecast_type] =
                                      made[j].predictions[k].predicted_value
                      /\ \A j \in 1..9 :
                           (\E s \in 1..2 : made[j].scenario = ScenarioOrder[s + 1]
                                            /\ name = ScenarioOrder[s]) =>
                             combined.forecast_id < made[j].forecast_id]_vars

\* C28, its case: a plan call has left nine forecasts with points and a plan
\* of three combined forecasts
C28_NineAndThree ==
  /\ call.op = "create_financial_plan"
  /\ Len(forecasts) = 9
  /\ Len(financial_plans) = 1
  /\ DOMAIN financial_plans[1].scenarios = ScenarioType
  /\ forecasts[4].scenario = REALISTIC
  /\ forecasts[4].forecast_type = REVENUE
  /\ Len(forecasts[9].predictions) = MaxMonths

\* C30: with forecast_months <= 0 generate_forecast still returns a Forecast,
\* with an empty predictions list, while create_financial_plan fails with a
\* division by zero in the budget allocation (the average over zero
\* realistic periods) after its nine forecasts were appended, and registers
\* no plan.
C30_EmptyHorizon ==
  [][/\ (call'.op = "generate_forecast" /\ call'.args[3] <= 0
         /\ RelevantMetrics(historical_data, call'.args[1]) # <<>>) =>
          /\ call'.error = "none"
          /\ call'.result.predictions = <<>>
          /\ forecasts' = Append(forecasts, call'.result)
     /\ (call'.op = "create_financial_plan" /\ call'.args[3] <= 0 /\ Uncovered = {}) =>
          /\ call'.error = "ZeroDivisionError"
          /\ call'.result = "none"
          /\ Len(forecasts') = Len(forecasts) + 9
          /\ \A j \in 1..9 : forecasts'[Len(forecasts) + j].predictions = <<>>
          /\ financial_plans' = financial_plans]_vars

\* C30, its case: a plan asked for zero months on a store that covers the
\* three categories; nine empty forecasts are stored and no plan
C30_NineEmpty ==
  /\ call.op = "create_financial_plan"
  /\ call.args[3] = 0
  /\ call.error = "ZeroDivisionError"
  /\ Len(forecasts) = 9
  /\ financial_plans = <<>>

\* the records of a batch before its first malformed one
WellFormedPrefix(metrics) ==
  LET bad == {i \in 1..Len(metrics) : MetricError(metrics[i]) # "none"}
  IN  SubSeq(metrics, 1, (CHOOSE i \in bad : \A h \in bad : i <= h) - 1)

\* C29: add_historical_data is not atomic over its batch: when a record of
\* the batch is malformed (a required field missing, or a value that cannot
\* be converted) the call raises after the records before it in the batch
\* have been appended to historical_data, and those stay stored.
C29_BatchNotAtomic ==
  [][(/\ call'.op = "add_historical_data"
      /\ \E i \in 1..Len(call'.args) : MetricError(call'.args[i]) # "none") =>
       LET kept == WellFormedPrefix(call'.args)
       IN  /\ call'.error \in {"KeyError", "InvalidOperation"}
           /\ Len(historical_data') = Len(historical_data) + Len(kept)
           /\ SubSeq(historical_data', 1, Len(historical_data)) = historical_data
           /\ \A i \in 1..Len(kept) :
                LET metric == historical_data'[Len(historical_data) + i]
                IN  /\ metric.name = kept[i].name
                    /\ metric.value = kept[i].value
                    /\ metric.period = kept[i].period
                    /\ metric.category = kept[i].category]_vars

\* C29, its case: a batch of a well-formed record and a record with a value
\* that cannot be converted; the call raised and the first record is stored
C29_FirstRecordKept ==
  /\ call.op = "add_historical_data"
  /\ call.error = "InvalidOperation"
  /\ Len(call.args) = 2
  /\ MetricError(call.args[1]) = "none"
  /\ Len(historical_data) >= 1
  /\ historical_data[Len(historical_data)].name = call.args[1].name
  /\ historical_data[Len(historical_data)].category = call.args[1].category

====
